---- MODULE Spec2Model ----
(***************************************************************************)
(* CharGen (src/app/main.py): the request-authentication gate, the signed  *)
(* session cookie and the character create / regenerate / update / delete  *)
(* pipeline over the relational store and the object store.                *)
(*                                                                         *)
(* Python strings are sequences of one-character strings; None is the      *)
(* one-element sequence NONE, which no real string equals.                 *)
(***************************************************************************)
EXTENDS Integers, Sequences, FiniteSets, TLC

VARIABLES
    PASSPHRASE_SHA256,  \* module global set from the environment at start-up
    CHARGEN_TOKEN,      \* os.environ["CHARGEN_TOKEN"] as a string, or NONE
    clock,              \* int(time.time())
    cookie,             \* the cg_sid cookie value the client holds
    origin,             \* how the client obtained that cookie
    verdict,            \* outcome of the last _is_session_authed call
    request,            \* the HTTP request handed to token_gate
    response,           \* what token_gate answered
    rows,               \* table characters: id -> row
    store,              \* object store: the set of object URLs that exist
    nextKey,            \* stands for uuid4 in object keys: next unused key
    nextId,             \* stands for uuid4 in char_id: next unused id
    pc,                 \* per request handler: the step it is at
    op,                 \* per request handler: the operation and the id it names
    loc,                \* per request handler: body, local variables, the calls it
                        \* made to the collaborators and its HTTP status
    opsStarted,         \* number of operations started so far
    SPACES,             \* the five SPACES_* environment variables
    DATABASE_URL,       \* the environment variable DATABASE_URL
    del_call,           \* calls of _delete_spaces_object_if_ours made directly:
                        \* how many, the last argument, what it issued
    login,              \* the last POST /login: form field, delay, response
    traits_call         \* a call of a traits function made directly: its
                        \* arguments, its result, the result of calling again

sessVars == <<cookie, origin, verdict>>
gateVars == <<request, response>>
pipeVars == <<rows, store, nextKey, nextId, pc, op, loc, opsStarted>>
cfgVars  == <<PASSPHRASE_SHA256, CHARGEN_TOKEN, SPACES, DATABASE_URL>>
callVars == <<del_call, login, traits_call>>
vars == <<cfgVars, clock, sessVars, gateVars, pipeVars, callVars>>

(***************************************************************************)
(* Bounds of the model.                                                    *)
(***************************************************************************)
\* clock values are sampled within Edge seconds of each boundary of the
\* acceptance window (0, the 60 s skew, the TTL, TTL + skew)
Edge == 1
\* number of hex characters kept of the 64-character HMAC-SHA256 hexdigest
HexLen == 5
\* operations started in one run of the pipeline
MaxOps == 3
\* direct calls of _delete_spaces_object_if_ours in one run
MaxCalls == 2

(***************************************************************************)
(* Python string helpers.                                                  *)
(***************************************************************************)
NONE == << "<None>" >>

\* Python truthiness of an optional string: None and "" are falsy
Falsy(v) == v = NONE \/ v = <<>>

Digits == {"0", "1", "2", "3", "4", "5", "6", "7", "8", "9"}
HexChars == <<"0", "1", "2", "3", "4", "5", "6", "7", "8", "9",
              "a", "b", "c", "d", "e", "f">>
\* a character outside ASCII (a Latin-1 byte >= 0x80 of the Cookie header)
NonAscii == "U+00E9"
Whitespace == {" "}

DigitVal(c) ==
    CASE c = "0" -> 0 [] c = "1" -> 1 [] c = "2" -> 2 [] c = "3" -> 3
      [] c = "4" -> 4 [] c = "5" -> 5 [] c = "6" -> 6 [] c = "7" -> 7
      [] c = "8" -> 8 [] c = "9" -> 9

DigitChar(d) == HexChars[d + 1]

\* str.strip(): drop leading and trailing whitespace
RECURSIVE LStrip(_)
LStrip(s) == IF s # <<>> /\ Head(s) \in Whitespace THEN LStrip(Tail(s)) ELSE s
RECURSIVE RStrip(_)
\* mutant: nothing is trimmed
StripNothing(s) == s

RStrip(s) ==
    IF s # <<>> /\ s[Len(s)] \in Whitespace
    THEN RStrip(SubSeq(s, 1, Len(s) - 1)) ELSE s
Strip(s) == RStrip(LStrip(s))

\* str(n) for an int n
RECURSIVE NatToStr(_)
NatToStr(n) ==
    IF n < 10 THEN <<DigitChar(n)>>
    ELSE NatToStr(n \div 10) \o <<DigitChar(n % 10)>>
IntToStr(n) == IF n < 0 THEN <<"-">> \o NatToStr(0 - n) ELSE NatToStr(n)

\* value of a sequence of decimal digits
RECURSIVE DecVal(_)
DecVal(s) ==
    IF s = <<>> THEN 0
    ELSE 10 * DecVal(SubSeq(s, 1, Len(s) - 1)) + DigitVal(s[Len(s)])

\* int(s): surrounding whitespace, an optional sign, then decimal digits with
\* single underscores allowed between digits; anything else is a ValueError
PyInt(s) ==
    LET t == Strip(s)
        signed == t # <<>> /\ t[1] \in {"+", "-"}
        body == IF signed THEN Tail(t) ELSE t
        valid == /\ body # <<>>
                 /\ body[1] \in Digits
                 /\ body[Len(body)] \in Digits
                 /\ \A i \in 1..Len(body) : body[i] \in Digits \cup {"_"}
                 /\ \A i \in 1..(Len(body) - 1) :
                        ~(body[i] = "_" /\ body[i + 1] = "_")
        digits == SelectSeq(body, LAMBDA c : c \in Digits)
        mag == DecVal(digits)
    IN  IF ~valid THEN [ok |-> FALSE, val |-> 0]
        ELSE [ok |-> TRUE, val |-> IF signed /\ t[1] = "-" THEN 0 - mag ELSE mag]

\* index of the first occurrence of character c in s, 0 when there is none
FirstIndex(s, c) ==
    IF \E i \in 1..Len(s) : s[i] = c
    THEN CHOOSE i \in 1..Len(s) : s[i] = c /\ \A j \in 1..(i - 1) : s[j] # c
    ELSE 0

UpperChars == <<"A", "B", "C", "D", "E", "F", "G", "H", "I", "J", "K", "L", "M",
                "N", "O", "P", "Q", "R", "S", "T", "U", "V", "W", "X", "Y", "Z">>
LowerChars == <<"a", "b", "c", "d", "e", "f", "g", "h", "i", "j", "k", "l", "m",
                "n", "o", "p", "q", "r", "s", "t", "u", "v", "w", "x", "y", "z">>

\* str.lower()
LowerChar(c) ==
    IF FirstIndex(UpperChars, c) > 0 THEN LowerChars[FirstIndex(UpperChars, c)]
    ELSE c
Lower(s) == IF s = <<>> THEN <<>> ELSE [i \in 1..Len(s) |-> LowerChar(s[i])]

\* sub in s
Contains(s, sub) ==
    \E i \in 1..(Len(s) - Len(sub) + 1) : SubSeq(s, i, i + Len(sub) - 1) = sub

\* s.split(None, 1): at most two parts, split at the first run of whitespace
SplitWs1(s) ==
    LET t == LStrip(s)
        ws == IF \E i \in 1..Len(t) : t[i] \in Whitespace
              THEN CHOOSE i \in 1..Len(t) :
                     t[i] \in Whitespace /\ \A j \in 1..(i - 1) : t[j] \notin Whitespace
              ELSE 0
        rest == LStrip(SubSeq(t, ws + 1, Len(t)))
    IN  IF t = <<>> THEN <<>>
        ELSE IF ws = 0 \/ rest = <<>> THEN <<SubSeq(t, 1, IF ws = 0 THEN Len(t) ELSE ws - 1)>>
        ELSE <<SubSeq(t, 1, ws - 1), rest>>

(***************************************************************************)
(* SignedSession: _sign_session and _is_session_authed.                    *)
(***************************************************************************)
SESSION_TTL_SEC == 24 * 60 * 60

\* 16^n
RECURSIVE Pow16(_)
Pow16(n) == IF n = 0 THEN 1 ELSE 16 * Pow16(n - 1)

\* n as exactly len lower-case hex digits
RECURSIVE ToHex(_, _)
ToHex(n, len) ==
    IF len = 0 THEN <<>>
    ELSE ToHex(n \div 16, len - 1) \o <<HexChars[(n % 16) + 1]>>

\* the key's contribution to the digest (its length and leading character)
KeyMix(key) ==
    IF key = <<>> THEN 0
    ELSE (Len(key) + 4099 * FirstIndex(HexChars, key[1])) % Pow16(HexLen)

\* hmac.new(key, msg, sha256).hexdigest() for a decimal message msg.  HMAC is
\* taken to be collision free on the messages the program signs: the digest
\* is a keyed injection of the message (an odd multiple modulo 16^HexLen)
\* written as HexLen lower-case hex digits.
HmacHexdigest(key, msg) ==
    ToHex((KeyMix(key) + 7 * PyInt(msg).val) % Pow16(HexLen), HexLen)

_sign_session(key, ts) ==
    LET msg == IntToStr(ts)
        sig == HmacHexdigest(key, msg)
    IN  msg \o <<".">> \o sig

\* hmac.compare_digest(a, b) on str arguments: TypeError unless both are ASCII
CompareDigest(a, b) ==
    IF \E i \in 1..Len(a) : a[i] = NonAscii THEN "TypeError"
    ELSE IF a = b THEN "True" ELSE "False"

\* mutant: the skew comparison rejects the boundary value too
FromFutureOffByOne(ts, now) == ts >= now + 60

\* "if ts > now + 60: return False"
FromFuture(ts, now) == ts > now + 60

\* mutant: the TTL is compared as if the clock counted milliseconds
ExpiredMillis(ts, now) == (now - ts) > SESSION_TTL_SEC * 1000

\* "if (now - ts) > SESSION_TTL_SEC: return False"
Expired(ts, now) == (now - ts) > SESSION_TTL_SEC

\* _is_session_authed(request) with v = request.cookies.get('cg_sid'),
\* now = int(time.time()) and key = PASSPHRASE_SHA256.  The outcome is
\* "True", "False", or "TypeError" when the call raises.
_is_session_authed(v, now, key) ==
    IF Falsy(v) THEN "False"
    ELSE
      LET dot == FirstIndex(v, ".")
          \* v.split('.', 1): two parts only when v holds a '.'
          ts_s == SubSeq(v, 1, dot - 1)
          sig == SubSeq(v, dot + 1, Len(v))
          parsed == PyInt(ts_s)
          ts == parsed.val
          signed == _sign_session(key, ts)
          \* _sign_session(ts).split('.', 1)[1]
          expected == SubSeq(signed, FirstIndex(signed, ".") + 1, Len(signed))
      IN  IF dot = 0 \/ ~parsed.ok THEN "False"
          ELSE IF FromFuture(ts, now) THEN "False"
          ELSE IF Expired(ts, now) THEN "False"
          ELSE CompareDigest(sig, expected)

(***************************************************************************)
(* The object-store configuration and _delete_spaces_object_if_ours.       *)
(***************************************************************************)
Https == <<"h", "t", "t", "p", "s", ":", "/", "/">>
Slash == <<"/">>

\* a value of DATABASE_URL
DbUrl == <<"p", "g">>

\* none of the SPACES_* variables is set
EnvNone == [SPACES_ACCESS_KEY |-> NONE, SPACES_SECRET_KEY |-> NONE,
            SPACES_BUCKET |-> NONE, SPACES_REGION |-> NONE,
            SPACES_ENDPOINT |-> NONE]
\* bucket "b" at endpoint "e.io"
EnvSet == [SPACES_ACCESS_KEY |-> <<"k">>, SPACES_SECRET_KEY |-> <<"s">>,
           SPACES_BUCKET |-> <<"b">>, SPACES_REGION |-> <<"r">>,
           SPACES_ENDPOINT |-> <<"e", ".", "i", "o">>]
\* one variable set to the empty string
EnvNoSecret == [EnvSet EXCEPT !.SPACES_SECRET_KEY = <<>>]
\* the endpoint written with a trailing "/"
EnvSlash == [EnvSet EXCEPT !.SPACES_ENDPOINT = <<"e", ".", "i", "o", "/">>]
\* another bucket at the same endpoint
EnvOther == [EnvSet EXCEPT !.SPACES_BUCKET = <<"c">>]
SpacesEnvs == {EnvNone, EnvSet, EnvNoSecret, EnvSlash, EnvOther}

\* _spaces_cfg(): the variables if all five are set and non-empty, else
\* None (EnvNone stands for it)
_spaces_cfg(env) ==
    IF \A k \in DOMAIN env : ~Falsy(env[k]) THEN env ELSE EnvNone

\* f"https://{cfg['SPACES_BUCKET']}.{cfg['SPACES_ENDPOINT']}"
_spaces_public_base(cfg) ==
    Https \o cfg.SPACES_BUCKET \o <<".">> \o cfg.SPACES_ENDPOINT

\* s.rstrip(c)
RECURSIVE RStripChar(_, _)
RStripChar(s, c) ==
    IF s # <<>> /\ s[Len(s)] = c THEN RStripChar(SubSeq(s, 1, Len(s) - 1), c)
    ELSE s

\* s.startswith(p)
StartsWith(s, p) == Len(s) >= Len(p) /\ SubSeq(s, 1, Len(p)) = p

\* mutant: the prefix compared lacks the closing "/"
OwnBaseNoSlash(cfg) == RStripChar(_spaces_public_base(cfg), "/")

\* base = _spaces_public_base(cfg).rstrip("/") + "/"
OwnBase(cfg) == RStripChar(_spaces_public_base(cfg), "/") \o Slash

\* _delete_spaces_object_if_ours(url) under environment env: the
\* delete_object calls it issues (none or one)
_delete_spaces_object_if_ours(env, url) ==
    LET cfg == _spaces_cfg(env)
        base == OwnBase(cfg)
    IN  IF cfg = EnvNone \/ Falsy(url) THEN <<>>
        ELSE IF ~StartsWith(url, base) THEN <<>>
        ELSE << [Bucket |-> cfg.SPACES_BUCKET,
                 Key |-> SubSeq(url, Len(base) + 1, Len(url))] >>

(***************************************************************************)
(* Configuration and clock values the specifications draw from.            *)
(***************************************************************************)
\* two well-formed PASSPHRASE_SHA256 values (64 lower-case hex characters)
KeyA == [i \in 1..64 |-> IF i = 1 THEN "a" ELSE "0"]
KeyB == [i \in 1..64 |-> IF i = 1 THEN "b" ELSE "0"]

Near(n) == {t \in (n - Edge)..(n + Edge) : t >= 0}
Times == Near(0) \cup Near(60) \cup Near(SESSION_TTL_SEC)
            \cup Near(SESSION_TTL_SEC + 60)

\* request handlers that may run concurrently
Handlers == {"h1", "h2"}

\* a NULL url column / a None url
NoUrl == [base |-> "", prefix |-> "", key |-> 0]

NoBody == [name |-> NONE, race |-> NONE, clazz |-> NONE, mood |-> NONE,
           bg |-> NONE, gender |-> NONE, style |-> NONE, extra |-> NONE,
           traits |-> NONE]
NoOp == [kind |-> "none", cid |-> 0]
NoLoc == [body |-> NoBody,
          name |-> NONE, race |-> NONE, clazz |-> NONE, mood |-> NONE,
          bg |-> NONE, gender |-> NONE, style |-> NONE, extra |-> NONE,
          traits |-> NONE, prompt |-> NONE,
          old_image_url |-> NoUrl, image_url |-> NoUrl, thumb_url |-> NoUrl,
          committed |-> FALSE, deleted |-> <<>>, gens |-> 0, status |-> 0,
          failed |-> "none", img |-> "", content |-> "", texts |-> 0,
          conn_open |-> FALSE, conns |-> 0]

\* the pipeline before any request: empty table, empty object store
PipeInit ==
    /\ rows = <<>>
    /\ store = {}
    /\ nextKey = 1
    /\ nextId = 1
    /\ pc = [h \in Handlers |-> "idle"]
    /\ op = [h \in Handlers |-> NoOp]
    /\ loc = [h \in Handlers |-> NoLoc]
    /\ opsStarted = 0

NoRequest == [path |-> "", authorization |-> NONE, t |-> NONE,
              cookie |-> NONE, accept |-> NONE]
NoResponse == [kind |-> "none", status |-> 0, location |-> ""]
GateIdle == request = NoRequest /\ response = NoResponse

NoCall == [n |-> 0, url |-> NONE, issued |-> <<>>]
NoLogin == [passphrase |-> NONE, slept_ms |-> 0, response |-> NoResponse,
            set_cookie |-> NONE, max_age |-> 0]
NoTraitsCall == [fn |-> "none", args |-> <<>>, out |-> NONE, again |-> NONE]
CallIdle == del_call = NoCall /\ login = NoLogin /\ traits_call = NoTraitsCall

(***************************************************************************)
(* SpecSession: a client obtains, crafts or tampers with a cg_sid cookie   *)
(* and the server verifies it.                                             *)
(***************************************************************************)
\* characters a tampering client writes over one character of a token
TamperChars == {"0", "1", "+", "-", "_", " ", ".", "a", "F", NonAscii}

\* non-canonical spellings of the timestamp that int() reads as the same number
Prefixes == {<<>>, <<"+">>, <<"0">>}

MalformedCookies ==
    { NONE,
      <<>>,
      <<"1", "2", "3">>,                        \* no '.'
      <<"a", "b", ".", "a", "b">>,              \* non-numeric timestamp
      <<".", "a", "b">>,                        \* empty timestamp
      <<"5", ".">>,                             \* empty signature
      <<"5", ".", "a">>,                        \* short signature
      <<"5", ".", NonAscii>>,                   \* non-ASCII signature
      <<"5", ".", "a", ".", "b">>,              \* second '.'
      <<"-", "-", "5", ".", "a">>,              \* doubled sign
      <<"5", "_", "_", "0", ".", "a">>,         \* doubled underscore
      <<"a", ".", NonAscii>> }                  \* both parts bad

SessInit ==
    /\ PASSPHRASE_SHA256 \in {KeyA, KeyB}
    /\ DATABASE_URL = DbUrl
    /\ CHARGEN_TOKEN = NONE
    /\ clock \in Times
    /\ cookie = NONE
    /\ origin = [kind |-> "none", ts |-> 0, base |-> NONE]
    /\ verdict = "none"
    /\ GateIdle
    /\ PipeInit
    /\ SPACES = EnvSet
    /\ CallIdle

\* login_post after a correct passphrase: ts = int(time.time()); sid = _sign_session(ts)
Login ==
    /\ origin.kind = "none"
    /\ cookie' = _sign_session(PASSPHRASE_SHA256, clock)
    /\ origin' = [kind |-> "login", ts |-> clock, base |-> NONE]
    /\ verdict' = "none"
    /\ UNCHANGED <<cfgVars, clock, gateVars, pipeVars, callVars>>

\* the client holds a correctly signed token for timestamp ts, its timestamp
\* spelled with an optional prefix
Craft(ts, prefix) ==
    /\ origin.kind = "none"
    /\ cookie' = prefix \o _sign_session(PASSPHRASE_SHA256, ts)
    /\ origin' = [kind |-> IF prefix = <<>> THEN "signed" ELSE "respelled",
                  ts |-> ts, base |-> NONE]
    /\ verdict' = "none"
    /\ UNCHANGED <<cfgVars, clock, gateVars, pipeVars, callVars>>

\* the client sends a cookie value that is no token at all
Malformed(v) ==
    /\ origin.kind = "none"
    /\ cookie' = v
    /\ origin' = [kind |-> "malformed", ts |-> 0, base |-> NONE]
    /\ verdict' = "none"
    /\ UNCHANGED <<cfgVars, clock, gateVars, pipeVars, callVars>>

\* the client replaces one character of its token by a different one
Tamper(i, c) ==
    /\ origin.kind \in {"login", "signed", "respelled"}
    /\ i \in 1..Len(cookie)
    /\ cookie[i] # c
    /\ cookie' = [cookie EXCEPT ![i] = c]
    /\ origin' = [kind |-> "tampered", ts |-> origin.ts, base |-> cookie]
    /\ verdict' = "none"
    /\ UNCHANGED <<cfgVars, clock, gateVars, pipeVars, callVars>>

\* time passes
Tick(t) ==
    /\ t > clock
    /\ clock' = t
    /\ verdict' = "none"
    /\ UNCHANGED <<cfgVars, cookie, origin, gateVars, pipeVars, callVars>>

\* the server evaluates _is_session_authed on the cookie at the current time
Verify ==
    /\ verdict = "none"
    /\ verdict' = _is_session_authed(cookie, clock, PASSPHRASE_SHA256)
    /\ UNCHANGED <<cfgVars, clock, cookie, origin, gateVars, pipeVars, callVars>>

SessNext ==
    \/ Login
    \/ \E ts \in Times, prefix \in Prefixes : Craft(ts, prefix)
    \/ \E v \in MalformedCookies : Malformed(v)
    \/ \E i \in 1..(HexLen + 8), c \in TamperChars : Tamper(i, c)
    \/ \E t \in Times : Tick(t)
    \/ Verify

SpecSession == SessInit /\ [][SessNext]_vars

\* the timestamp and signature parts of the cookie, as the code splits it
CookieTs == PyInt(SubSeq(cookie, 1, FirstIndex(cookie, ".") - 1))
CookieSig == SubSeq(cookie, FirstIndex(cookie, ".") + 1, Len(cookie))

\* C5: a token issued at ts verifies at clock value ts, and no longer
\* verifies at any clock value after ts + 86400.
C5_RoundTripAndExpiry ==
    (origin.kind \in {"login", "signed"} /\ verdict # "none") =>
        /\ (clock = origin.ts => verdict = "True")
        /\ (clock > origin.ts + 86400 => verdict = "False")

C5_Witness ==
    /\ origin.kind = "login"
    /\ clock > origin.ts + 86400
    /\ verdict = "False"

\* C6: replacing one character of a token that verifies gives a token that
\* does not verify.
C6_TamperEvident ==
    (/\ origin.kind = "tampered"
     /\ verdict # "none"
     /\ _is_session_authed(origin.base, clock, PASSPHRASE_SHA256) = "True")
        => verdict # "True"

\* C7: a correctly signed token for ts is accepted exactly when
\* ts <= now + 60 and now - ts <= 86400; a token whose signature is not the
\* HMAC of its timestamp is never accepted.
C7_AcceptanceWindow ==
    /\ (origin.kind \in {"login", "signed", "respelled"} /\ verdict # "none") =>
          (verdict = "True" <=>
              (origin.ts <= clock + 60 /\ clock - origin.ts <= 86400))
    /\ (/\ verdict # "none"
        /\ ~Falsy(cookie)
        /\ FirstIndex(cookie, ".") > 0
        /\ CookieTs.ok
        /\ CookieSig # HmacHexdigest(PASSPHRASE_SHA256, IntToStr(CookieTs.val)))
          => verdict # "True"

C7_Witness ==
    /\ origin.kind = "signed"
    /\ origin.ts = clock + 60
    /\ verdict = "True"

\* C8: verification never raises, and every malformed cookie value is
\* answered False.
C8_VerifyTotal ==
    verdict # "none" =>
        /\ verdict \in {"True", "False"}
        /\ (origin.kind = "malformed" => verdict = "False")

(***************************************************************************)
(* AuthGate: _extract_token, _wants_html and the token_gate middleware.    *)
(***************************************************************************)
Bearer == <<"b", "e", "a", "r", "e", "r">>
TextHtml == <<"t", "e", "x", "t", "/", "h", "t", "m", "l">>

\* mutant: the query parameter is preferred to the header
_extract_token_query_first(t, authorization) ==
    LET parts == IF Falsy(authorization) THEN <<>> ELSE SplitWs1(authorization)
    IN  IF ~Falsy(t) THEN Strip(t)
        ELSE IF Len(parts) = 2 /\ Lower(parts[1]) = Bearer THEN Strip(parts[2])
        ELSE NONE

\* _extract_token(request, authorization) with t = request.query_params.get("t")
_extract_token(t, authorization) ==
    LET parts == IF Falsy(authorization) THEN <<>> ELSE SplitWs1(authorization)
    IN  IF Len(parts) = 2 /\ Lower(parts[1]) = Bearer THEN Strip(parts[2])
        ELSE IF ~Falsy(t) THEN Strip(t)
        ELSE NONE

\* mutant: a request without an Accept header does not count as a browser
_wants_html_needs_header(accept) ==
    Contains(Lower(IF Falsy(accept) THEN <<>> ELSE accept), TextHtml)

\* _wants_html(request) with accept = request.headers.get('accept')
_wants_html(accept) ==
    LET a == Lower(IF Falsy(accept) THEN <<>> ELSE accept)
    IN  Contains(a, TextHtml) \/ a = <<>>

\* mutant: only the health paths are allow-listed
AllowListedHealthOnly(path) == path \in {"/ping", "/robots.txt"}

\* the two allow-list tests of token_gate
AllowListed(path) ==
    path \in {"/ping", "/robots.txt"} \/ path \in {"/login", "/logout"}

\* mutant: only an unset variable counts as "not configured"
NotConfiguredNoneOnly(expected_token) == expected_token = NONE

\* "if not expected_token"
NotConfigured(expected_token) == Falsy(expected_token)

\* mutant: the session path is taken without a configured passphrase digest
SessionAdmitsUnconfigured(passphrase, authed) == authed = "True"

\* "if PASSPHRASE_SHA256 and _is_session_authed(request)"; authed is only
\* evaluated (and may only raise) when the digest is configured
SessionAdmits(passphrase, authed) == passphrase # <<>> /\ authed = "True"

Handler(path) == [kind |-> "handler", status |-> 0, location |-> path]
JsonResponse(status) == [kind |-> "json", status |-> status, location |-> ""]
HtmlResponse(status) == [kind |-> "html", status |-> status, location |-> ""]
RedirectResponse(url) == [kind |-> "redirect", status |-> 302, location |-> url]
\* an exception escaping the middleware: the server answers 500
ServerError == [kind |-> "error", status |-> 500, location |-> ""]

\* the route of GET /ping: "return {ok: True}", answered with status 200
ping == JsonResponse(200)

\* what the client receives when the middleware hands the request on: the
\* answer of the route (only that of GET /ping is modelled)
call_next(resp) == IF resp = Handler("/ping") THEN ping ELSE resp

\* token_gate(request, call_next): the response, Handler(path) standing for
\* "return await call_next(request)"
token_gate(req, expected_token, passphrase, now) ==
    LET token == _extract_token(req.t, req.authorization)
        authed == _is_session_authed(req.cookie, now, passphrase)
    IN  IF AllowListed(req.path) THEN Handler(req.path)
        ELSE IF NotConfigured(expected_token) THEN JsonResponse(503)
        ELSE IF token = expected_token THEN Handler(req.path)
        ELSE IF SessionAdmits(passphrase, authed) THEN Handler(req.path)
        ELSE IF passphrase # <<>> /\ authed = "TypeError" THEN ServerError
        ELSE IF _wants_html(req.accept)
             THEN IF passphrase # <<>> /\ Len(passphrase) = 64
                  THEN RedirectResponse("/login")
                  ELSE HtmlResponse(401)
        ELSE JsonResponse(401)

(***************************************************************************)
(* login_post: the passphrase form.                                        *)
(***************************************************************************)
\* the passphrase whose SHA-256 digest is KeyA, and a wrong one
Pw == <<"p", "w">>
WrongPw == <<"P", "w">>

\* hashlib.sha256(passphrase.encode('utf-8')).hexdigest(): 64 hex
\* characters, different for different passphrases
Sha256Hex(passphrase) ==
    [i \in 1..64 |->
        IF i # 1 THEN "0"
        ELSE IF passphrase = Pw THEN "a"
        ELSE IF passphrase = <<>> THEN "b"
        ELSE "c"]

\* time.sleep(0.35), in milliseconds
FailDelayMs == 350

\* mutant: a wrong passphrase is answered without delay
LoginDelayNone(ok) == 0

\* "if not ok: time.sleep(0.35)"
LoginDelay(ok) == IF ok THEN 0 ELSE FailDelayMs

\* mutant: the session is stamped ahead of the clock
LoginTimestampAhead(now) == now + 61

\* "ts = int(time.time())"
LoginTimestamp(now) == now

\* login_post with field = form.get('passphrase'): how long it slept, its
\* response, the cg_sid cookie it sets and that cookie's max_age
login_post(configured, field, now) ==
    IF Falsy(configured) \/ Len(configured) # 64
    THEN [slept_ms |-> 0, response |-> RedirectResponse("/login"),
          set_cookie |-> NONE, max_age |-> 0]
    ELSE LET passphrase == IF Falsy(field) THEN <<>> ELSE field
             digest == Sha256Hex(passphrase)
             \* an exception of compare_digest counts as a mismatch
             ok == CompareDigest(Lower(digest), configured) = "True"
         IN  IF ~ok
             THEN [slept_ms |-> LoginDelay(ok),
                   response |-> RedirectResponse("/login?err=Wrong%20passphrase"),
                   set_cookie |-> NONE, max_age |-> 0]
             ELSE [slept_ms |-> LoginDelay(ok),
                   response |-> RedirectResponse("/"),
                   set_cookie |-> _sign_session(configured, LoginTimestamp(now)),
                   max_age |-> SESSION_TTL_SEC]

(***************************************************************************)
(* SpecGate: requests with every combination of credentials arrive at the  *)
(* middleware under every configuration.                                   *)
(***************************************************************************)
Tok == <<"t", "k">>
Bad == <<"x">>
\* a PASSPHRASE_SHA256 that is set but is no 64-character digest
ShortDigest == <<"a", "b">>

Paths == {"/ping", "/robots.txt", "/login", "/logout",
          "/generate", "/ping/"}
AuthHeaders ==
    { NONE,
      <<"B", "e", "a", "r", "e", "r", " ">> \o Tok,
      <<"b", "e", "a", "r", "e", "r", " ", " ">> \o Bad,
      <<"B", "a", "s", "i", "c", " ">> \o Tok,
      <<"B", "e", "a", "r", "e", "r">> }
QueryTokens == {NONE, Tok, Bad}
AcceptHeaders ==
    { NONE,
      <<"T", "e", "x", "t", "/", "H", "T", "M", "L", ",", "*", "/", "*">>,
      <<"*", "/", "*">> }
GateCookies ==
    { NONE,
      _sign_session(KeyA, 0),
      _sign_session(KeyA, 61),
      _sign_session(KeyB, 0),
      _sign_session(<<>>, 0),
      _sign_session(ShortDigest, 0),
      <<"0", ".", NonAscii>> }
Requests ==
    [path : Paths, authorization : AuthHeaders, t : QueryTokens,
     cookie : GateCookies, accept : AcceptHeaders]

GateInit ==
    /\ PASSPHRASE_SHA256 \in {<<>>, KeyA, ShortDigest}
    /\ DATABASE_URL = DbUrl
    /\ CHARGEN_TOKEN \in {NONE, <<>>, Tok}
    /\ clock \in Times
    /\ cookie = NONE
    /\ origin = [kind |-> "none", ts |-> 0, base |-> NONE]
    /\ verdict = "none"
    /\ GateIdle
    /\ PipeInit
    /\ SPACES = EnvSet
    /\ CallIdle

\* one request passes through the middleware (requests are independent:
\* the middleware keeps no state between them)
Receive(req) ==
    /\ request = NoRequest
    /\ login = NoLogin
    /\ request' = req
    /\ response' = token_gate(req, CHARGEN_TOKEN, PASSPHRASE_SHA256, clock)
    /\ UNCHANGED <<cfgVars, clock, sessVars, pipeVars, callVars>>

\* passphrase fields a login form is submitted with
LoginFields == {NONE, <<>>, Pw, WrongPw}

\* one POST /login reaches its route (the path is allow-listed)
LoginPost(field) ==
    /\ request = NoRequest
    /\ login = NoLogin
    /\ LET r == login_post(PASSPHRASE_SHA256, field, clock)
       IN  /\ login' = [passphrase |-> field, slept_ms |-> r.slept_ms,
                        response |-> r.response, set_cookie |-> r.set_cookie,
                        max_age |-> r.max_age]
           /\ cookie' = IF r.set_cookie # NONE THEN r.set_cookie ELSE cookie
           /\ origin' = IF r.set_cookie # NONE
                         THEN [kind |-> "login", ts |-> clock, base |-> NONE]
                         ELSE origin
    /\ UNCHANGED <<cfgVars, clock, verdict, gateVars, pipeVars, del_call,
                   traits_call>>

GateNext ==
    \/ \E req \in Requests : Receive(req)
    \/ \E field \in LoginFields : LoginPost(field)

SpecGate == GateInit /\ [][GateNext]_vars

Answered == response # NoResponse

\* C1: off the allow-list, the route handler runs only if a static token is
\* configured and either the extracted credential equals it, or a passphrase
\* digest is configured and the cg_sid cookie verifies.
C1_Admission ==
    (Answered /\ request.path \notin {"/ping", "/robots.txt", "/login", "/logout"}
        /\ response.kind = "handler") =>
       /\ ~Falsy(CHARGEN_TOKEN)
       /\ \/ _extract_token(request.t, request.authorization) = CHARGEN_TOKEN
          \/ /\ PASSPHRASE_SHA256 # <<>>
             /\ _is_session_authed(request.cookie, clock, PASSPHRASE_SHA256) = "True"

\* admitted by the session cookie alone
C1_Witness ==
    /\ Answered
    /\ request.path = "/generate"
    /\ response.kind = "handler"
    /\ _extract_token(request.t, request.authorization) # CHARGEN_TOKEN
    /\ request.cookie = _sign_session(KeyA, 0)

\* C2: with no static token configured, every request off the allow-list is
\* answered 503, whatever credentials it carries.
C2_FailClosed ==
    (Answered /\ Falsy(CHARGEN_TOKEN)
        /\ request.path \notin {"/ping", "/robots.txt", "/login", "/logout"}) =>
       response = JsonResponse(503)

\* 503 for a request carrying a bearer value and a valid session cookie
C2_Witness ==
    /\ Answered
    /\ CHARGEN_TOKEN = <<>>
    /\ PASSPHRASE_SHA256 = KeyA
    /\ request.path = "/generate"
    /\ request.t = Bad
    /\ request.authorization # NONE
    /\ request.cookie = _sign_session(KeyA, 0)
    /\ _is_session_authed(request.cookie, clock, PASSPHRASE_SHA256) = "True"
    /\ response.status = 503

(***************************************************************************)
(* SpecLogin: a browser submits the login form, time passes, and it comes  *)
(* back with the cookie it was given and no other credential.              *)
(***************************************************************************)
\* a request that carries the browser's cookie and nothing else
Revisit(path, accept) ==
    /\ login # NoLogin
    /\ request' = [NoRequest EXCEPT !.path = path, !.cookie = cookie,
                                     !.accept = accept]
    /\ response' = token_gate(request', CHARGEN_TOKEN, PASSPHRASE_SHA256, clock)
    /\ UNCHANGED <<cfgVars, clock, sessVars, pipeVars, callVars>>

\* time passes between two requests
Later(t) ==
    /\ t > clock
    /\ clock' = t
    /\ request' = NoRequest
    /\ response' = NoResponse
    /\ UNCHANGED <<cfgVars, sessVars, pipeVars, callVars>>

LoginNext ==
    \/ \E field \in LoginFields : LoginPost(field)
    \/ \E t \in Times : Later(t)
    \/ \E path \in {"/generate", "/ping"}, accept \in AcceptHeaders :
          Revisit(path, accept)

SpecLogin == GateInit /\ [][LoginNext]_vars

\* C21: a login with the right passphrase at time t is answered with a 302
\* and sets a cg_sid cookie whose max_age is 86400; with the static token
\* configured, a later request off the allow-list that carries only this
\* cookie reaches its route exactly while the clock is at most t + 86400.
C21_LoginSession ==
    (login.set_cookie # NONE) =>
        /\ login.passphrase = Pw
        /\ login.response.kind = "redirect"
        /\ login.response.status = 302
        /\ login.max_age = 86400
        /\ cookie = login.set_cookie
        /\ origin.kind = "login"
        /\ clock >= origin.ts
        /\ (/\ Answered
            /\ request.path = "/generate"
            /\ ~Falsy(CHARGEN_TOKEN)) =>
               (response.kind = "handler" <=> clock <= origin.ts + 86400)

\* the cookie of a login at t is turned away at t + 86401
C21_Witness ==
    /\ login.set_cookie # NONE
    /\ CHARGEN_TOKEN = Tok
    /\ Answered
    /\ request.path = "/generate"
    /\ request.cookie = login.set_cookie
    /\ clock = origin.ts + 86401
    /\ response.kind # "handler"

\* C20: with a 64-character digest configured, a login whose passphrase
\* digest differs from it has slept the fixed delay (350 ms) before its
\* response, is answered with a 302 to /login?err=..., and sets no cookie.
C20_FailedLogin ==
    (/\ login.response # NoResponse
     /\ Len(PASSPHRASE_SHA256) = 64
     /\ Sha256Hex(IF Falsy(login.passphrase) THEN <<>> ELSE login.passphrase)
            # PASSPHRASE_SHA256) =>
        /\ login.slept_ms >= 350
        /\ login.response.kind = "redirect"
        /\ login.response.status = 302
        /\ login.response.location = "/login?err=Wrong%20passphrase"
        /\ login.set_cookie = NONE
        /\ cookie = NONE

\* a passphrase that differs from the right one in the case of a letter
C20_Witness ==
    /\ PASSPHRASE_SHA256 = KeyA
    /\ login.passphrase = WrongPw
    /\ login.slept_ms = 350
    /\ login.response.location = "/login?err=Wrong%20passphrase"
    /\ cookie = NONE

\* C17: a request to /ping, /robots.txt, /login or /logout is handed to its
\* route whatever credentials it carries and whatever is configured, and
\* the route of /ping answers 200.
C17_AllowList ==
    (Answered /\ request.path \in {"/ping", "/robots.txt", "/login", "/logout"}) =>
        /\ response.kind = "handler"
        /\ response.location = request.path
        /\ (request.path = "/ping" => call_next(response).status = 200)

\* /login reached with nothing configured and no credential at all
C17_Witness ==
    /\ Answered
    /\ request.path = "/login"
    /\ CHARGEN_TOKEN = NONE
    /\ PASSPHRASE_SHA256 = <<>>
    /\ request.authorization = NONE
    /\ request.t = NONE
    /\ request.cookie = NONE
    /\ response.kind = "handler"

\* the Authorization header is "Bearer <value>", the scheme in any case
WellFormedBearer(authorization) ==
    /\ ~Falsy(authorization)
    /\ Len(SplitWs1(authorization)) = 2
    /\ Lower(SplitWs1(authorization)[1]) = Bearer

\* the request is admitted by its session cookie
BySession ==
    /\ PASSPHRASE_SHA256 # <<>>
    /\ _is_session_authed(request.cookie, clock, PASSPHRASE_SHA256) = "True"

\* C18: with a static token configured and no valid session, a request off
\* the allow-list that has a well-formed Bearer header is admitted exactly
\* if the header's value is the token, whatever its t parameter is; a
\* request without a well-formed Bearer header is admitted exactly if its t
\* parameter is the token.
C18_HeaderPrecedence ==
    (/\ Answered
     /\ request.path \notin {"/ping", "/robots.txt", "/login", "/logout"}
     /\ ~Falsy(CHARGEN_TOKEN)
     /\ ~BySession) =>
        IF WellFormedBearer(request.authorization)
        THEN response.kind = "handler" <=>
                Strip(SplitWs1(request.authorization)[2]) = CHARGEN_TOKEN
        ELSE response.kind = "handler" <=>
                (~Falsy(request.t) /\ Strip(request.t) = CHARGEN_TOKEN)

\* a wrong Bearer value with the right t parameter is turned away
C18_Witness ==
    /\ Answered
    /\ request.path = "/generate"
    /\ CHARGEN_TOKEN = Tok
    /\ WellFormedBearer(request.authorization)
    /\ Strip(SplitWs1(request.authorization)[2]) = Bad
    /\ request.t = Tok
    /\ request.cookie = NONE
    /\ response.status = 401

CommaSpace == <<",", " ">>
ExpressionSuffix == <<" ", "e", "x", "p", "r", "e", "s", "s", "i", "o", "n">>
BackgroundSuffix == <<" ", "b", "a", "c", "k", "g", "r", "o", "u", "n", "d">>
StylePrefix == <<"S", "t", "y", "l", "e", ":", " ">>
StyleMarker == <<"s", "t", "y", "l", "e", ":">>
Unnamed == <<"U", "n", "n", "a", "m", "e", "d">>

\* sep.join(parts)
RECURSIVE Join(_, _)
Join(sep, parts) ==
    IF parts = <<>> THEN <<>>
    ELSE IF Len(parts) = 1 THEN parts[1]
    ELSE parts[1] \o sep \o Join(sep, Tail(parts))

\* v or ""
OrEmpty(v) == IF Falsy(v) THEN <<>> ELSE v

\* (body.get(k) or "").strip() or None
BodyField(v) == IF Strip(OrEmpty(v)) = <<>> THEN NONE ELSE Strip(OrEmpty(v))

\* mutant: the style token comes last
_compose_traits_style_last(race, clazz, mood, bg, gender, style, extra) ==
    LET parts ==
            (IF Falsy(race) THEN <<>> ELSE <<race>>)
         \o (IF Falsy(clazz) THEN <<>> ELSE <<clazz>>)
         \o (IF Falsy(mood) THEN <<>> ELSE <<mood \o ExpressionSuffix>>)
         \o (IF Falsy(bg) THEN <<>> ELSE <<bg \o BackgroundSuffix>>)
         \o (IF Falsy(gender) THEN <<>> ELSE <<gender>>)
         \o (IF Falsy(extra) THEN <<>> ELSE <<extra>>)
         \o (IF Falsy(style) THEN <<>> ELSE <<StylePrefix \o style>>)
    IN  Join(CommaSpace, SelectSeq(parts, LAMBDA q : q # <<>>))

_compose_traits(race, clazz, mood, bg, gender, style, extra) ==
    LET parts ==
            (IF Falsy(race) THEN <<>> ELSE <<race>>)
         \o (IF Falsy(clazz) THEN <<>> ELSE <<clazz>>)
         \o (IF Falsy(mood) THEN <<>> ELSE <<mood \o ExpressionSuffix>>)
         \o (IF Falsy(bg) THEN <<>> ELSE <<bg \o BackgroundSuffix>>)
         \o (IF Falsy(gender) THEN <<>> ELSE <<gender>>)
         \o (IF Falsy(style) THEN <<>> ELSE <<StylePrefix \o style>>)
         \o (IF Falsy(extra) THEN <<>> ELSE <<extra>>)
    IN  Join(CommaSpace, SelectSeq(parts, LAMBDA q : q # <<>>))

\* _build_prompt(traits): the fixed instructions, then the stripped traits
_build_prompt(traits) ==
    <<"[D&D portrait, 1:1, no text] Character traits: ">> \o Strip(traits)

\* "traits = new_traits if new_traits is not None else old_traits"
RegenTraits(new_traits, old_traits) ==
    IF new_traits # NONE THEN new_traits ELSE old_traits

\* mutant: the marker is looked for without lower-casing
EnsureStyleCaseSensitive(style, traits) ==
    IF ~Falsy(style) /\ ~Contains(OrEmpty(traits), StyleMarker)
    THEN LET t == Strip(OrEmpty(traits))
         IN  t \o (IF t # <<>> THEN CommaSpace ELSE <<>>) \o StylePrefix \o style
    ELSE traits

\* "if style and ('style:' not in (traits or '').lower())": append a Style token
EnsureStyle(style, traits) ==
    IF ~Falsy(style) /\ ~Contains(Lower(OrEmpty(traits)), StyleMarker)
    THEN LET t == Strip(OrEmpty(traits))
         IN  t \o (IF t # <<>> THEN CommaSpace ELSE <<>>) \o StylePrefix \o style
    ELSE traits

\* the locals of character_regenerate between the row read and the prompt
RegenLocals(body, row) ==
    LET new_extra == BodyField(body.extra)
        new_traits == BodyField(body.traits)
        new_style == BodyField(body.style)
        style == IF new_style # NONE THEN new_style ELSE row.style
        extra == IF new_extra # NONE THEN new_extra ELSE row.extra
        traits0 == RegenTraits(new_traits, row.traits)
        traits1 == IF Falsy(traits0)
                   THEN _compose_traits(row.race, row.class, row.mood,
                                        row.background, row.gender, style, extra)
                   ELSE traits0
        traits == EnsureStyle(style, traits1)
    IN  [NoLoc EXCEPT !.body = body,
                      !.race = row.race, !.clazz = row.class, !.mood = row.mood,
                      !.bg = row.background, !.gender = row.gender,
                      !.style = style, !.extra = extra, !.traits = traits,
                      !.prompt = _build_prompt(traits),
                      !.old_image_url = row.image_url]

(***************************************************************************)
(* SpecTraits: the two traits functions called directly, once per          *)
(* behaviour, on arguments drawn from small sets.                          *)
(***************************************************************************)
Elf == <<"E", "l", "f">>
Wizard == <<"W", "i", "z", "a", "r", "d">>
Grim == <<"G", "r", "i", "m">>
Cave == <<"C", "a", "v", "e">>
Female == <<"f", "e", "m", "a", "l", "e">>
Tall == <<"T", "a", "l", "l">>
Ink == <<"I", "n", "k">>
Scar == <<"S", "c", "a", "r">>
IllustratedFantasy ==
    <<"I", "l", "l", "u", "s", "t", "r", "a", "t", "e", "d", " ",
      "f", "a", "n", "t", "a", "s", "y">>
StylePrefixUpper == <<"S", "T", "Y", "L", "E", ":", " ">>

\* what a field of a stored row or of a request may hold
FieldValues(v) == {NONE, <<>>, v}

StyleArgs == {NONE, <<>>, Ink, IllustratedFantasy}
TraitsArgs ==
    { NONE, <<>>, <<" ">>, Tall, <<" ">> \o Tall \o <<" ">>,
      StylePrefix \o Ink,
      StylePrefix \o IllustratedFantasy,
      StylePrefixUpper \o Ink,
      StyleMarker \o Ink,
      Tall \o CommaSpace \o StylePrefix \o Ink,
      Tall \o CommaSpace \o StylePrefixUpper \o IllustratedFantasy,
      Tall \o CommaSpace \o <<"S", "t", "y", "l", "e">>,
      Elf \o CommaSpace \o Wizard }

TraitsInit ==
    /\ PASSPHRASE_SHA256 = <<>>
    /\ DATABASE_URL = DbUrl
    /\ CHARGEN_TOKEN = NONE
    /\ SPACES = EnvSet
    /\ clock = 0
    /\ cookie = NONE
    /\ origin = [kind |-> "none", ts |-> 0, base |-> NONE]
    /\ verdict = "none"
    /\ GateIdle
    /\ PipeInit
    /\ CallIdle

\* the "ensure style tag present" step, and the same step on its own result
EnsureStyleCall(style, traits) ==
    /\ traits_call = NoTraitsCall
    /\ traits_call' = [fn |-> "ensure", args |-> <<style, traits>>,
                       out |-> EnsureStyle(style, traits),
                       again |-> EnsureStyle(style, EnsureStyle(style, traits))]
    /\ UNCHANGED <<cfgVars, clock, sessVars, gateVars, pipeVars, del_call, login>>

\* _compose_traits, called twice on the same arguments
ComposeCall(race, clazz, mood, bg, gender, style, extra) ==
    /\ traits_call = NoTraitsCall
    /\ traits_call' = [fn |-> "compose",
                       args |-> <<race, clazz, mood, bg, gender, style, extra>>,
                       out |-> _compose_traits(race, clazz, mood, bg, gender, style, extra),
                       again |-> _compose_traits(race, clazz, mood, bg, gender, style, extra)]
    /\ UNCHANGED <<cfgVars, clock, sessVars, gateVars, pipeVars, del_call, login>>

Oil == <<"O", "i", "l">>

\* rows a regenerate may read: the facets of a create, the traits as typed
\* or as an earlier regenerate left them
StoredRows ==
    { [id |-> 1, created_at |-> 1, name |-> Unnamed, race |-> Elf, class |-> Wizard,
       mood |-> NONE, background |-> NONE, gender |-> NONE, style |-> style,
       extra |-> NONE, traits |-> traits,
       image_url |-> [base |-> "spaces", prefix |-> "chargen", key |-> 1],
       thumb_url |-> NoUrl, quote |-> NONE] :
      style \in {NONE, Ink},
      traits \in {Tall, Tall \o CommaSpace \o StylePrefix \o Ink,
                  StylePrefixUpper \o Ink} }

\* what a regenerate request may carry
RegenRequests ==
    { [NoBody EXCEPT !.style = style, !.traits = traits, !.extra = extra] :
      style \in {NONE, <<>>, Ink, Oil},
      traits \in {NONE, <<>>, Tall, Tall \o CommaSpace \o StylePrefix \o Ink,
                  StyleMarker \o Oil},
      extra \in {NONE, Scar} }

\* character_regenerate from the row it read to the prompt it sends
RegenLocalsCall(body, row) ==
    /\ traits_call = NoTraitsCall
    /\ traits_call' = [fn |-> "regen", args |-> <<body, row>>,
                       out |-> RegenLocals(body, row),
                       again |-> RegenLocals(body, row)]
    /\ UNCHANGED <<cfgVars, clock, sessVars, gateVars, pipeVars, del_call, login>>

TraitsNext ==
    \/ \E style \in StyleArgs, traits \in TraitsArgs : EnsureStyleCall(style, traits)
    \/ \E body \in RegenRequests, row \in StoredRows : RegenLocalsCall(body, row)
    \/ \E race \in FieldValues(Elf) \cup {<<" ">>}, clazz \in FieldValues(Wizard),
          mood \in FieldValues(Grim), bg \in FieldValues(Cave),
          gender \in FieldValues(Female), style \in FieldValues(Ink),
          extra \in FieldValues(Scar) :
          ComposeCall(race, clazz, mood, bg, gender, style, extra)

SpecTraits == TraitsInit /\ [][TraitsNext]_vars

\* number of places of s where sub begins
Occurrences(s, sub) ==
    Cardinality({i \in 1..(Len(s) - Len(sub) + 1) : SubSeq(s, i, i + Len(sub) - 1) = sub})

\* C28: the "ensure style tag present" step applied to its own result with
\* the same style returns that result; traits that contain "style:" in any
\* letter case come back as they were, without a further Style token; and
\* traits without the marker get exactly one token when a style is given.
C28_EnsureStyleIdempotent ==
    traits_call.fn = "ensure" =>
        LET style == traits_call.args[1]
            traits == traits_call.args[2]
            out == traits_call.out
        IN  /\ traits_call.again = out
            /\ Occurrences(Lower(OrEmpty(traits)), StyleMarker) > 0 => out = traits
            /\ (/\ ~Falsy(style)
                /\ Occurrences(Lower(OrEmpty(traits)), StyleMarker) = 0) =>
                   /\ Occurrences(Lower(out), StyleMarker) = 1
                   /\ out = Strip(OrEmpty(traits))
                             \o (IF Strip(OrEmpty(traits)) = <<>> THEN <<>> ELSE CommaSpace)
                             \o StylePrefix \o style
            /\ Falsy(style) => out = traits

\* style 'Illustrated fantasy' with traits 'Style: Illustrated fantasy'
C28_Witness ==
    /\ traits_call.fn = "ensure"
    /\ traits_call.args = <<IllustratedFantasy, StylePrefix \o IllustratedFantasy>>
    /\ traits_call.out = StylePrefix \o IllustratedFantasy
    /\ Occurrences(Lower(traits_call.again), StyleMarker) = 1

\* traits name style s in a Style token, in any letter case, with or without
\* the blank after the colon
NamesStyle(traits, s) ==
    \/ Contains(Lower(traits), Lower(StylePrefix \o s))
    \/ Contains(Lower(traits), StyleMarker \o Lower(s))

\* C35 (as claimed): when the style a regenerate ends up with is a non-empty
\* value S, the traits it puts into the prompt and into the row contain a
\* Style token naming S.
C35_StyleReflected ==
    (traits_call.fn = "regen" /\ ~Falsy(traits_call.out.style)) =>
        /\ NamesStyle(traits_call.out.traits, traits_call.out.style)
        /\ NamesStyle(traits_call.out.prompt, traits_call.out.style)

\* the token a field contributes, by its place in the fixed order
ComposeToken(i, v) ==
    CASE i = 3 -> v \o ExpressionSuffix
      [] i = 4 -> v \o BackgroundSuffix
      [] i = 6 -> StylePrefix \o v
      [] OTHER -> v

\* the tokens of the non-empty fields from place i on, each after the
\* separator unless it is the first
RECURSIVE Appended(_, _, _)
Appended(args, i, acc) ==
    IF i > Len(args) THEN acc
    ELSE IF Falsy(args[i]) THEN Appended(args, i + 1, acc)
    ELSE Appended(args, i + 1,
                  (IF acc = <<>> THEN <<>> ELSE acc \o CommaSpace)
                      \o ComposeToken(i, args[i]))

\* C29: compose returns the tokens of exactly its non-empty fields, in the
\* order race, class, "<mood> expression", "<background> background",
\* gender, "Style: <style>", extra, with ", " between them; the empty
\* string when every field is empty; and the same on a second call.
C29_ComposeJoins ==
    traits_call.fn = "compose" =>
        /\ traits_call.out = Appended(traits_call.args, 1, <<>>)
        /\ ((\A i \in 1..7 : Falsy(traits_call.args[i])) => traits_call.out = <<>>)
        /\ traits_call.again = traits_call.out

\* race, mood, style and extra given, class empty, background and gender missing
C29_Witness ==
    /\ traits_call.fn = "compose"
    /\ traits_call.args = <<Elf, <<>>, Grim, NONE, NONE, Ink, Scar>>
    /\ traits_call.out = Elf \o CommaSpace \o Grim \o ExpressionSuffix \o CommaSpace
                             \o StylePrefix \o Ink \o CommaSpace \o Scar

(***************************************************************************)
(* SpecText: the extraction of the quote from the text provider's answer,  *)
(* called directly, once per behaviour, on answers drawn from a small set. *)
(***************************************************************************)
\* " ".join(s.split()): runs of whitespace become one blank, none at the ends
RECURSIVE Collapse(_)
Collapse(s) ==
    IF s = <<>> THEN <<>>
    ELSE IF Head(s) \in Whitespace THEN
         (IF LStrip(s) = <<>> THEN <<>> ELSE <<" ">> \o Collapse(LStrip(s)))
    ELSE <<Head(s)>> \o Collapse(Tail(s))
SingleLine(s) == Collapse(Strip(s))

\* the inner loop: the stripped text of the first part of the candidate whose
\* "text" is truthy, NONE when it has none; the loop stops at that part
RECURSIVE FirstText(_)
FirstText(parts) ==
    IF parts = <<>> THEN NONE
    ELSE IF ~Falsy(Head(parts)) THEN Strip(Head(parts))
    ELSE FirstText(Tail(parts))

\* the outer loop: stops at the first candidate that left text_out truthy;
\* a later candidate overwrites an empty text_out
RECURSIVE TextOut(_, _)
TextOut(candidates, text_out) ==
    IF candidates = <<>> THEN text_out
    ELSE LET t == FirstText(Head(candidates))
             now == IF t = NONE THEN text_out ELSE t
         IN  IF ~Falsy(now) THEN now ELSE TextOut(Tail(candidates), now)

\* character_generate_quote after json.loads: the quote, or 502 "no text
\* returned"
ExtractQuote(candidates) ==
    LET text_out == TextOut(candidates, NONE)
    IN  IF Falsy(text_out) THEN [status |-> 502, quote |-> NONE]
        ELSE [status |-> 200, quote |-> SingleLine(text_out)]

Hi == <<"H", "i">>
\* a part without text (NONE), with empty, blank or padded text
PartTexts == {NONE, <<>>, <<" ">>, Hi, <<" ">> \o Hi \o <<" ", " ">> \o Hi \o <<" ">>}
PartLists == {<<>>} \cup {<<p>> : p \in PartTexts}
                 \cup {<<p, q>> : p \in PartTexts, q \in PartTexts}
CandidateLists == {<<>>} \cup {<<c>> : c \in PartLists}
                       \cup {<<c, d>> : c \in PartLists, d \in PartLists}

ExtractCall(candidates) ==
    /\ traits_call = NoTraitsCall
    /\ traits_call' = [fn |-> "extract", args |-> candidates,
                       out |-> ExtractQuote(candidates),
                       again |-> ExtractQuote(candidates)]
    /\ UNCHANGED <<cfgVars, clock, sessVars, gateVars, pipeVars, del_call, login>>

TextNext == \E candidates \in CandidateLists : ExtractCall(candidates)

SpecText == TraitsInit /\ [][TextNext]_vars

\* every part of every candidate, in order
RECURSIVE AllParts(_)
AllParts(candidates) ==
    IF candidates = <<>> THEN <<>>
    ELSE Head(candidates) \o AllParts(Tail(candidates))

NonBlank(p) == p # NONE /\ Strip(p) # <<>>

\* C36 (as claimed): the quote is the first part, over all candidates and
\* parts in order, whose text is non-empty after trimming, with whitespace
\* runs collapsed; the extraction fails only when there is no such part.
C36_FirstNonBlankText ==
    traits_call.fn = "extract" =>
        LET parts == SelectSeq(AllParts(traits_call.args), NonBlank)
        IN  IF parts = <<>> THEN traits_call.out.status = 502
            ELSE /\ traits_call.out.status = 200
                 /\ traits_call.out.quote = SingleLine(parts[1])

(***************************************************************************)
(* The relational store and the object store.                              *)
(***************************************************************************)
\* the public URL of an object this application uploaded.  The key stands
\* for "<prefix>/<date>/<uuid4>.png"; the thumbnail of an image is given the
\* number of its image, under its own prefix.
Url(prefix, key) == [base |-> "spaces", prefix |-> prefix, key |-> key]

\* the NOT NULL columns of table characters
NotNullOk(row) ==
    /\ row.name # NONE
    /\ row.traits # NONE
    /\ row.image_url # NoUrl

\* mutant: the cleanup never reaches delete_object
IssuesDeleteNever(url) == FALSE

\* _delete_spaces_object_if_ours(url) reaches delete_object: the URL is set
\* and starts with this store's public base
IssuesDelete(url) == url # NoUrl /\ url.base = "spaces"

\* mutant: the delete statement removes nothing
WithoutNothing(f, k) == f

\* "delete from characters where id=%s"
Without(f, k) == [i \in (DOMAIN f) \ {k} |-> f[i]]

(***************************************************************************)
(* SpecOwned: _delete_spaces_object_if_ours called with every kind of URL  *)
(* under every object-store configuration.                                 *)
(***************************************************************************)
\* an object of the other bucket
OtherUrl == [base |-> "other", prefix |-> "chargen", key |-> 1]

\* the bucket an object lives in
BucketOf(u) ==
    IF u.base = "spaces" THEN EnvSet.SPACES_BUCKET ELSE EnvOther.SPACES_BUCKET

\* the object key "<prefix>/<uuid4>.png" (the date part is left out)
KeyString(u) ==
    (IF u.prefix = "chargen" THEN <<"c", "h", "a", "r", "g", "e", "n">>
     ELSE <<"c", "h", "a", "r", "g", "e", "n", "-", "t", "h", "u", "m", "b", "s">>)
        \o Slash \o NatToStr(u.key) \o <<".", "p", "n", "g">>

\* "_spaces_public_base(cfg) + '/' + key", the URL _upload_png_to_spaces
\* returned for the object
UrlString(u) ==
    _spaces_public_base(IF u.base = "spaces" THEN EnvSet ELSE EnvOther)
        \o Slash \o KeyString(u)

OwnedObjects == {Url("chargen", 1), Url("chargen-thumbs", 1), OtherUrl}

\* the URLs the function is called with
DeleteArgs ==
    { NONE,
      <<>>,
      UrlString(Url("chargen", 1)),
      UrlString(Url("chargen-thumbs", 1)),
      UrlString(OtherUrl),
      \* the public base alone, and with nothing after its "/"
      _spaces_public_base(EnvSet),
      _spaces_public_base(EnvSet) \o Slash,
      \* another host whose name begins with this store's
      _spaces_public_base(EnvSet) \o <<".", "x">> \o Slash
          \o KeyString(Url("chargen", 1)),
      \* the same host over http
      <<"h", "t", "t", "p", ":", "/", "/", "b", ".", "e", ".", "i", "o">>
          \o Slash \o KeyString(Url("chargen", 1)),
      \* a leading blank
      <<" ">> \o UrlString(Url("chargen", 1)) }

OwnedInit ==
    /\ PASSPHRASE_SHA256 = <<>>
    /\ DATABASE_URL = DbUrl
    /\ CHARGEN_TOKEN = NONE
    /\ SPACES \in SpacesEnvs
    /\ clock = 0
    /\ cookie = NONE
    /\ origin = [kind |-> "none", ts |-> 0, base |-> NONE]
    /\ verdict = "none"
    /\ GateIdle
    /\ rows = <<>>
    /\ store = OwnedObjects
    /\ nextKey = 2
    /\ nextId = 1
    /\ pc = [h \in Handlers |-> "idle"]
    /\ op = [h \in Handlers |-> NoOp]
    /\ loc = [h \in Handlers |-> NoLoc]
    /\ opsStarted = 0
    /\ CallIdle

\* one call of _delete_spaces_object_if_ours(url); ok tells whether a
\* delete_object it issues succeeds (a failure is swallowed)
DeleteIfOurs(url, ok) ==
    /\ del_call.n < MaxCalls
    /\ LET issued == _delete_spaces_object_if_ours(SPACES, url)
       IN  /\ del_call' = [n |-> del_call.n + 1, url |-> url, issued |-> issued]
           /\ store' = IF issued # <<>> /\ ok
                        THEN {u \in store : ~(/\ BucketOf(u) = issued[1].Bucket
                                              /\ KeyString(u) = issued[1].Key)}
                        ELSE store
    /\ UNCHANGED <<cfgVars, clock, sessVars, gateVars, rows, nextKey, nextId,
                   pc, op, loc, opsStarted, login, traits_call>>

OwnedNext == \E url \in DeleteArgs, ok \in BOOLEAN : DeleteIfOurs(url, ok)

SpecOwned == OwnedInit /\ [][OwnedNext]_vars

\* this store's public base without trailing "/", as the environment gives it
NormalBase ==
    Https \o SPACES.SPACES_BUCKET \o <<".">>
        \o RStripChar(SPACES.SPACES_ENDPOINT, "/")

\* C16: a call issues nothing when one of the SPACES_* variables is unset
\* or empty, when the URL is None or empty, or when the URL does not begin
\* with this store's public base followed by "/"; a call that issues
\* nothing changes no object, and a call that issues a delete names this
\* store's bucket and removes at most an object of this store.
C16_OnlyOwnPrefix ==
    /\ [](del_call.issued # <<>> =>
            /\ \A k \in DOMAIN SPACES : SPACES[k] # NONE /\ SPACES[k] # <<>>
            /\ del_call.url # NONE
            /\ del_call.url # <<>>
            /\ Len(del_call.url) > Len(NormalBase)
            /\ SubSeq(del_call.url, 1, Len(NormalBase) + 1) = NormalBase \o Slash
            /\ Len(del_call.issued) = 1
            /\ del_call.issued[1].Bucket = SPACES.SPACES_BUCKET)
    /\ [][/\ (del_call'.n > del_call.n /\ del_call'.issued = <<>>) => store' = store
          /\ \A u \in store \ store' :
                 /\ BucketOf(u) = SPACES.SPACES_BUCKET
                 /\ del_call'.url = UrlString(u)]_vars

\* the URL of a host whose name merely begins with this store's left alone
C16_Witness ==
    /\ SPACES = EnvSet
    /\ del_call.n = 1
    /\ del_call.url # NONE
    /\ StartsWith(del_call.url, _spaces_public_base(EnvSet))
    /\ Len(del_call.url) > Len(_spaces_public_base(EnvSet)) + 1
    /\ del_call.issued = <<>>
    /\ store = OwnedObjects

(***************************************************************************)
(* CharacterPipeline: generate (create), character_regenerate,             *)
(* character_delete and character_update, one action per step between two  *)
(* points where another request can run.                                   *)
(***************************************************************************)
\* everything outside the pipeline
others == <<cfgVars, clock, sessVars, gateVars, callVars>>

Free(h) == pc[h] \in {"idle", "done"}

\* a request is taken by a free handler; handlers are interchangeable, so the
\* second one takes a request only while the first is busy
CanStart(h) ==
    /\ Free(h)
    /\ h = "h1" \/ ~Free("h1")
    /\ opsStarted < MaxOps

Begin(h, o, l, at) ==
    /\ op' = [op EXCEPT ![h] = o]
    /\ loc' = [loc EXCEPT ![h] = l]
    /\ pc' = [pc EXCEPT ![h] = at]
    /\ opsStarted' = opsStarted + 1

\* what is left of a call once the handler has returned: its HTTP status, the
\* URLs of a successful response and the record of the calls it made
Returned(l, status) ==
    [NoLoc EXCEPT !.status = status,
                  !.image_url = IF status = 200 THEN l.image_url ELSE NoUrl,
                  !.thumb_url = IF status = 200 THEN l.thumb_url ELSE NoUrl,
                  !.committed = l.committed,
                  !.deleted = l.deleted,
                  !.gens = l.gens,
                  !.failed = l.failed,
                  !.content = IF status = 200 THEN l.content ELSE "",
                  !.texts = l.texts,
                  !.conns = l.conns]

\* the handler returns (or raises) with this HTTP status
Finish(h, l, status) ==
    /\ loc' = [loc EXCEPT ![h] = Returned(l, status)]
    /\ pc' = [pc EXCEPT ![h] = "done"]

Goto(h, l, at) ==
    /\ loc' = [loc EXCEPT ![h] = l]
    /\ pc' = [pc EXCEPT ![h] = at]

\* mutant: the missing-traits check is absent
CreateRejectsNothing(traits) == FALSE

\* "if not traits: raise HTTPException(400, 'missing traits')"
CreateRejects(traits) == traits = <<>>

\* generate, up to the provider call
StartCreate(h, body) ==
    /\ CanStart(h)
    /\ LET name == Strip(OrEmpty(body.name))
           traits == Strip(OrEmpty(body.traits))
           prompt == IF name # <<>>
                     THEN _build_prompt(traits) \o <<"[name, vibe only]: ">> \o name
                     ELSE _build_prompt(traits)
           l == [NoLoc EXCEPT !.body = body,
                              !.name = name,
                              !.race = BodyField(body.race),
                              !.clazz = BodyField(body.clazz),
                              !.mood = BodyField(body.mood),
                              !.bg = BodyField(body.bg),
                              !.gender = BodyField(body.gender),
                              !.style = BodyField(body.style),
                              !.extra = BodyField(body.extra),
                              !.traits = traits,
                              !.prompt = prompt]
           o == [kind |-> "create", cid |-> 0]
       IN  IF CreateRejects(traits)
           THEN Begin(h, o, [Returned(NoLoc, 400) EXCEPT !.body = body], "done")
           ELSE Begin(h, o, l, "generate")
    /\ UNCHANGED <<rows, store, nextKey, nextId, others>>

\* character_regenerate: the body is parsed, nothing else has happened
StartRegenerate(h, cid, body) ==
    /\ CanStart(h)
    /\ Begin(h, [kind |-> "regenerate", cid |-> cid],
             [NoLoc EXCEPT !.body = body], "regen_read")
    /\ UNCHANGED <<rows, store, nextKey, nextId, others>>

\* mutant: the connection is attempted without looking at DATABASE_URL
DbConfiguredAlways == TRUE

\* _db_connect: "if not url: raise HTTPException(503, 'DATABASE_URL not
\* configured')"
DbConfigured == ~Falsy(DATABASE_URL)

\* _upload_png_to_spaces: "if not cfg: raise HTTPException(503, 'Spaces not
\* configured')"
SpacesConfigured == _spaces_cfg(SPACES) # EnvNone

\* the HTTPException(503) of a missing configuration
Unconfigured(l) == [l EXCEPT !.failed = "not configured"]

\* mutant: the connection stays open after the with block
ConnectionLeftOpen(open) == open

\* "with _db_connect() as conn:": the connection is closed when the block is
\* left, by its end or by an exception
ConnectionAfterWith(open) == FALSE

\* character_regenerate: first connection, select of the row, then the
\* computation of style, extra, traits and the prompt
RegenRead(h, dbOk) ==
    /\ pc[h] = "regen_read"
    /\ LET l == [loc[h] EXCEPT !.conns = @ + 1]
       IN  IF ~DbConfigured THEN Finish(h, Unconfigured(loc[h]), 503)
           ELSE IF ~dbOk THEN Finish(h, l, 500)
           ELSE IF op[h].cid \notin DOMAIN rows THEN Finish(h, l, 404)
           ELSE Goto(h, [RegenLocals(loc[h].body, rows[op[h].cid])
                            EXCEPT !.conns = l.conns,
                                   !.conn_open = ConnectionAfterWith(TRUE)],
                     "generate")
    /\ UNCHANGED <<rows, store, nextKey, nextId, op, opsStarted, others>>

\* base64.b64decode(b64): the image bytes the provider returned
Png == "png bytes"

\* mutant: a failed provider call is not raised to the caller
GenerateRaisesNever(outcome) == FALSE

\* _gemini_generate_image_b64 raises HTTPException unless the provider
\* answered with image data
GenerateRaises(outcome) == outcome # "ok"

\* mutant: a failed provider call is sent again
GenerateRetry(h, outcome) ==
    /\ pc[h] = "generate"
    /\ LET l == [loc[h] EXCEPT !.gens = @ + 1,
                               !.img = IF outcome = "ok" THEN Png ELSE @]
       IN  IF outcome = "ok" THEN Goto(h, l, "upload")
           ELSE Goto(h, l, "generate")
    /\ UNCHANGED <<rows, store, nextKey, nextId, op, opsStarted, others>>

\* _gemini_generate_image_b64(prompt): one request to the provider; failed
\* records that the required step did not produce an image
Generate(h, outcome) ==
    /\ pc[h] = "generate"
    /\ LET l == [loc[h] EXCEPT !.gens = @ + 1,
                               !.failed = IF outcome = "ok" THEN @ ELSE "generation",
                               !.img = IF outcome = "ok" THEN Png ELSE @]
       IN  IF ~GenerateRaises(outcome) THEN Goto(h, l, "upload")
           ELSE IF outcome = "http_error" THEN Finish(h, l, 429)
           ELSE Finish(h, l, 502)
    /\ UNCHANGED <<rows, store, nextKey, nextId, op, opsStarted, others>>

\* _upload_png_and_thumb_to_spaces: upload of the full image
Upload(h, ok) ==
    /\ pc[h] = "upload"
    /\ IF ~SpacesConfigured
       THEN /\ Finish(h, Unconfigured(loc[h]), 503)
            /\ UNCHANGED <<store, nextKey>>
       ELSE IF ok
       THEN /\ store' = store \cup {Url("chargen", nextKey)}
            /\ nextKey' = nextKey + 1
            /\ Goto(h, [loc[h] EXCEPT !.image_url = Url("chargen", nextKey)], "thumb")
       ELSE /\ Finish(h, [loc[h] EXCEPT !.failed = "upload"], 500)
            /\ UNCHANGED <<store, nextKey>>
    /\ UNCHANGED <<rows, nextId, op, opsStarted, others>>

AfterPublish(kind) == IF kind = "create" THEN "insert" ELSE "update"

\* mutant: a failing thumbnail fails the call
ThumbRequired(h, ok) ==
    /\ pc[h] = "thumb"
    /\ IF ok
       THEN /\ store' = store \cup {Url("chargen-thumbs", loc[h].image_url.key)}
            /\ Goto(h, [loc[h] EXCEPT !.thumb_url =
                                         Url("chargen-thumbs", loc[h].image_url.key)],
                    AfterPublish(op[h].kind))
       ELSE /\ Finish(h, loc[h], 500)
            /\ UNCHANGED store
    /\ UNCHANGED <<rows, nextKey, nextId, op, opsStarted, others>>

\* _upload_png_and_thumb_to_spaces: thumbnail, best effort
Thumb(h, ok) ==
    /\ pc[h] = "thumb"
    /\ IF ok
       THEN /\ store' = store \cup {Url("chargen-thumbs", loc[h].image_url.key)}
            /\ Goto(h, [loc[h] EXCEPT !.thumb_url =
                                         Url("chargen-thumbs", loc[h].image_url.key)],
                    AfterPublish(op[h].kind))
       ELSE /\ Goto(h, [loc[h] EXCEPT !.thumb_url = NoUrl], AfterPublish(op[h].kind))
            /\ UNCHANGED store
    /\ UNCHANGED <<rows, nextKey, nextId, op, opsStarted, others>>

\* mutant: the name is stored as submitted
NewRowNoDefaultName(id, l) ==
    [id |-> id, created_at |-> id, name |-> l.name,
     race |-> l.race, class |-> l.clazz, mood |-> l.mood, background |-> l.bg,
     gender |-> l.gender, style |-> l.style, extra |-> l.extra,
     traits |-> l.traits, image_url |-> l.image_url, thumb_url |-> l.thumb_url,
     quote |-> NONE]

NewRow(id, l) ==
    [id |-> id, created_at |-> id,
     name |-> IF l.name # <<>> THEN l.name ELSE Unnamed,
     race |-> l.race, class |-> l.clazz, mood |-> l.mood, background |-> l.bg,
     gender |-> l.gender, style |-> l.style, extra |-> l.extra,
     traits |-> l.traits, image_url |-> l.image_url, thumb_url |-> l.thumb_url,
     quote |-> NONE]

\* generate: char_id = uuid4(), insert of the row, commit
Insert(h, dbOk) ==
    /\ pc[h] = "insert"
    /\ IF ~DbConfigured
       THEN /\ Finish(h, Unconfigured(loc[h]), 503)
            /\ UNCHANGED <<rows, nextId, op>>
       ELSE IF dbOk /\ NotNullOk(NewRow(nextId, loc[h]))
       THEN /\ rows' = rows @@ (nextId :> NewRow(nextId, loc[h]))
            /\ nextId' = nextId + 1
            /\ op' = [op EXCEPT ![h].cid = nextId]
            \* "return Response(content=img, media_type='image/png')"
            /\ Finish(h, [loc[h] EXCEPT !.committed = TRUE, !.content = loc[h].img,
                                        !.conns = @ + 1], 200)
       ELSE /\ Finish(h, [loc[h] EXCEPT !.failed = "datastore", !.conns = @ + 1], 500)
            /\ UNCHANGED <<rows, nextId, op>>
    /\ UNCHANGED <<store, nextKey, opsStarted, others>>

\* mutant: the row count of the update is not looked at
UpdateNotFoundIgnored(rowcount) == FALSE

\* "if cur.rowcount != 1: raise HTTPException(404)"
UpdateNotFound(rowcount) == rowcount # 1

\* mutant: the update leaves thumb_url as it was
RegenRowOldThumb(row, l) ==
    [row EXCEPT !.extra = l.extra, !.traits = l.traits, !.style = l.style,
                !.image_url = l.image_url]

\* mutant: the update also clears the race column
RegenRowNoRace(row, l) ==
    [row EXCEPT !.extra = l.extra, !.traits = l.traits, !.style = l.style,
                !.image_url = l.image_url, !.thumb_url = l.thumb_url,
                !.race = NONE]

RegenRow(row, l) ==
    [row EXCEPT !.extra = l.extra, !.traits = l.traits, !.style = l.style,
                !.image_url = l.image_url, !.thumb_url = l.thumb_url]

\* character_regenerate: second connection, update of the row, commit
RegenUpdate(h, dbOk) ==
    /\ pc[h] = "update"
    /\ LET cid == op[h].cid
           rowcount == IF cid \in DOMAIN rows THEN 1 ELSE 0
           l == [loc[h] EXCEPT !.conns = @ + 1]
       IN  IF ~DbConfigured
           THEN Finish(h, Unconfigured(loc[h]), 503) /\ UNCHANGED rows
           ELSE IF ~dbOk \/ (rowcount = 1 /\ ~NotNullOk(RegenRow(rows[cid], loc[h])))
           THEN Finish(h, l, 500) /\ UNCHANGED rows
           ELSE IF UpdateNotFound(rowcount)
           THEN Finish(h, l, 404) /\ UNCHANGED rows
           ELSE /\ rows' = IF rowcount = 1
                           THEN [rows EXCEPT ![cid] = RegenRow(rows[cid], loc[h])]
                           ELSE rows
                /\ Goto(h, [l EXCEPT !.committed = (rowcount = 1)], "cleanup")
    /\ UNCHANGED <<store, nextKey, nextId, op, opsStarted, others>>

\* mutant: the cleanup is given the new image instead of the old one
CleanupTargetNew(l) == l.image_url

\* the argument of _delete_spaces_object_if_ours: old_image_url in
\* character_regenerate, image_url of the selected row in character_delete
CleanupTarget(l) == l.old_image_url

\* _delete_spaces_object_if_ours, then "return {ok: True, ...}"; a failing
\* delete_object is swallowed
Cleanup(h, ok) ==
    /\ pc[h] = "cleanup"
    /\ LET url == CleanupTarget(loc[h])
       IN  IF IssuesDelete(url) /\ SpacesConfigured
           THEN /\ store' = IF ok THEN store \ {url} ELSE store
                /\ Finish(h, [loc[h] EXCEPT !.deleted = Append(@, url)], 200)
           ELSE /\ Finish(h, loc[h], 200)
                /\ UNCHANGED store
    /\ UNCHANGED <<rows, nextKey, nextId, op, opsStarted, others>>

\* character_delete: nothing has happened yet
StartDelete(h, cid) ==
    /\ CanStart(h)
    /\ Begin(h, [kind |-> "delete", cid |-> cid], NoLoc, "del_select")
    /\ UNCHANGED <<rows, store, nextKey, nextId, others>>

\* mutant: the result of the select is not tested
DeleteNotFoundIgnored(found) == FALSE

\* "row = cur.fetchone(); if not row: raise HTTPException(404)"
DeleteNotFound(found) == ~found

\* character_delete: select image_url of the row
DelSelect(h, dbOk) ==
    /\ pc[h] = "del_select"
    /\ LET found == op[h].cid \in DOMAIN rows
       IN  IF ~DbConfigured THEN Finish(h, Unconfigured(loc[h]), 503)
           ELSE IF ~dbOk THEN Finish(h, [loc[h] EXCEPT !.failed = "datastore"], 500)
           ELSE IF DeleteNotFound(found) THEN Finish(h, loc[h], 404)
           ELSE Goto(h, [loc[h] EXCEPT !.old_image_url =
                                           IF found THEN rows[op[h].cid].image_url
                                           ELSE NoUrl],
                     "del_row")
    /\ UNCHANGED <<rows, store, nextKey, nextId, op, opsStarted, others>>

\* character_delete: delete of the row and commit (the statement runs under
\* READ COMMITTED, so another request may have committed since the select)
DelRow(h, dbOk) ==
    /\ pc[h] = "del_row"
    /\ IF dbOk
       THEN /\ rows' = Without(rows, op[h].cid)
            /\ Goto(h, [loc[h] EXCEPT !.committed = TRUE], "cleanup")
       ELSE /\ Finish(h, loc[h], 500)
            /\ UNCHANGED rows
    /\ UNCHANGED <<store, nextKey, nextId, op, opsStarted, others>>

\* mutant: the missing-name check is absent
UpdateRejectsNothing(name) == FALSE

\* "if not name: raise HTTPException(400, 'missing name')"
UpdateRejects(name) == Falsy(name)

\* character_update, up to the datastore access
StartUpdate(h, cid, body) ==
    /\ CanStart(h)
    /\ LET l == [NoLoc EXCEPT !.body = body,
                              !.name = BodyField(body.name),
                              !.extra = BodyField(body.extra),
                              !.traits = BodyField(body.traits)]
           o == [kind |-> "update", cid |-> cid]
       IN  IF UpdateRejects(l.name)
           THEN Begin(h, o, [Returned(NoLoc, 400) EXCEPT !.body = body], "done")
           ELSE Begin(h, o, l, "upd_row")
    /\ UNCHANGED <<rows, store, nextKey, nextId, others>>

\* mutant: the update also writes the style column
UpdatedRowStyle(row, l) ==
    [row EXCEPT !.name = l.name, !.extra = l.extra, !.traits = l.traits,
                !.style = l.style]

\* "update characters set name=%s, extra=%s, traits=%s where id=%s"
UpdatedRow(row, l) ==
    [row EXCEPT !.name = l.name, !.extra = l.extra, !.traits = l.traits]

\* character_update: update of name, extra, traits and commit; a NULL in a
\* NOT NULL column makes the statement fail and the transaction roll back
UpdRow(h, dbOk) ==
    /\ pc[h] = "upd_row"
    /\ LET cid == op[h].cid
           rowcount == IF cid \in DOMAIN rows THEN 1 ELSE 0
       IN  IF ~DbConfigured
           THEN Finish(h, Unconfigured(loc[h]), 503) /\ UNCHANGED rows
           ELSE IF ~dbOk
           THEN Finish(h, [loc[h] EXCEPT !.failed = "datastore"], 500) /\ UNCHANGED rows
           ELSE IF rowcount = 1 /\ ~NotNullOk(UpdatedRow(rows[cid], loc[h]))
           THEN Finish(h, [loc[h] EXCEPT !.failed = "not null"], 500) /\ UNCHANGED rows
           ELSE IF rowcount # 1
           THEN Finish(h, loc[h], 404) /\ UNCHANGED rows
           ELSE /\ rows' = [rows EXCEPT ![cid] = UpdatedRow(rows[cid], loc[h])]
                /\ Finish(h, [loc[h] EXCEPT !.committed = TRUE], 200)
    /\ UNCHANGED <<store, nextKey, nextId, op, opsStarted, others>>

\* character_generate_quote: a request for a quote arrives
StartQuote(h, cid) ==
    /\ CanStart(h)
    /\ Begin(h, [kind |-> "quote", cid |-> cid], NoLoc, "quote_select")
    /\ UNCHANGED <<rows, store, nextKey, nextId, others>>

\* mutant: a missing row is not looked at
QuoteNotFoundIgnored(found) == FALSE

\* "if not row: raise HTTPException(404)"
QuoteNotFound(found) == ~found

\* character_generate_quote: select of the row
QuoteSelect(h, dbOk) ==
    /\ pc[h] = "quote_select"
    /\ LET found == op[h].cid \in DOMAIN rows
       IN  IF ~DbConfigured THEN Finish(h, Unconfigured(loc[h]), 503)
           ELSE IF ~dbOk THEN Finish(h, [loc[h] EXCEPT !.failed = "datastore"], 500)
           ELSE IF QuoteNotFound(found) THEN Finish(h, loc[h], 404)
           ELSE Goto(h, loc[h], "quote_text")
    /\ UNCHANGED <<rows, store, nextKey, nextId, op, opsStarted, others>>

QuoteJson == "quote json"

\* character_generate_quote: the key, the call of the text provider, the
\* first text part of its answer
QuoteText(h, outcome) ==
    /\ pc[h] = "quote_text"
    /\ LET l == [loc[h] EXCEPT !.texts = @ + 1]
       IN  CASE outcome = "no_key" -> Finish(h, loc[h], 503)
             [] outcome = "http_error" -> Finish(h, [l EXCEPT !.failed = "text"], 429)
             [] outcome = "unreachable" -> Finish(h, [l EXCEPT !.failed = "text"], 500)
             [] outcome = "no_text" -> Finish(h, l, 502)
             [] OTHER -> Finish(h, [l EXCEPT !.content = QuoteJson], 200)
    /\ UNCHANGED <<rows, store, nextKey, nextId, op, opsStarted, others>>

(***************************************************************************)
(* Spec: the pipeline under concurrent requests.  Every external call may  *)
(* fail, and a handler may stop at any step (no fairness is assumed).      *)
(***************************************************************************)
ElfWizard == Elf \o CommaSpace \o Wizard
Bo == <<"B", "o">>
\* traits typed with blanks around them
TallPadded == <<" ">> \o Tall \o <<" ">>

CreateBodies ==
    { [NoBody EXCEPT !.traits = ElfWizard, !.race = Elf, !.clazz = Wizard],
      [NoBody EXCEPT !.traits = TallPadded, !.race = Elf, !.clazz = Wizard,
                     !.style = Ink, !.extra = Scar, !.name = Bo],
      [NoBody EXCEPT !.traits = <<" ">>, !.race = Elf],
      [NoBody EXCEPT !.race = Elf, !.clazz = Wizard, !.style = Ink] }
RegenBodies ==
    { [NoBody EXCEPT !.traits = <<>>],
      [NoBody EXCEPT !.traits = Tall, !.style = Ink] }
UpdateBodies ==
    { [NoBody EXCEPT !.name = Bo, !.extra = <<>>, !.traits = <<>>],
      [NoBody EXCEPT !.name = Bo, !.traits = Tall],
      [NoBody EXCEPT !.name = <<" ">>, !.traits = Tall],
      [NoBody EXCEPT !.name = <<>>, !.traits = Tall],
      [NoBody EXCEPT !.traits = Tall] }
GenOutcomes == {"ok", "http_error", "unreachable"}
TextOutcomes == {"ok", "no_key", "http_error", "unreachable", "no_text"}
\* ids a request may name: the first two ids a run creates (an id names no
\* row before its create and after its delete)
Cids == {1, 2}

Init ==
    /\ PASSPHRASE_SHA256 = <<>>
    /\ DATABASE_URL = DbUrl
    /\ CHARGEN_TOKEN = NONE
    /\ clock = 0
    /\ cookie = NONE
    /\ origin = [kind |-> "none", ts |-> 0, base |-> NONE]
    /\ verdict = "none"
    /\ GateIdle
    /\ PipeInit
    /\ SPACES = EnvSet
    /\ CallIdle

Next ==
    \/ \E h \in Handlers, body \in CreateBodies : StartCreate(h, body)
    \/ \E h \in Handlers, cid \in Cids, body \in RegenBodies :
          StartRegenerate(h, cid, body)
    \/ \E h \in Handlers, cid \in Cids : StartDelete(h, cid)
    \/ \E h \in Handlers, cid \in Cids, body \in UpdateBodies :
          StartUpdate(h, cid, body)
    \/ \E h \in Handlers, dbOk \in BOOLEAN : RegenRead(h, dbOk)
    \/ \E h \in Handlers, outcome \in GenOutcomes : Generate(h, outcome)
    \/ \E h \in Handlers, ok \in BOOLEAN : Upload(h, ok)
    \/ \E h \in Handlers, ok \in BOOLEAN : Thumb(h, ok)
    \/ \E h \in Handlers, dbOk \in BOOLEAN : Insert(h, dbOk)
    \/ \E h \in Handlers, dbOk \in BOOLEAN : RegenUpdate(h, dbOk)
    \/ \E h \in Handlers, ok \in BOOLEAN : Cleanup(h, ok)
    \/ \E h \in Handlers, dbOk \in BOOLEAN : DelSelect(h, dbOk)
    \/ \E h \in Handlers, dbOk \in BOOLEAN : DelRow(h, dbOk)
    \/ \E h \in Handlers, dbOk \in BOOLEAN : UpdRow(h, dbOk)
    \/ \E h \in Handlers, cid \in Cids : StartQuote(h, cid)
    \/ \E h \in Handlers, dbOk \in BOOLEAN : QuoteSelect(h, dbOk)
    \/ \E h \in Handlers, outcome \in TextOutcomes : QuoteText(h, outcome)

Spec == Init /\ [][Next]_vars

(***************************************************************************)
(* SpecConfig: the pipeline started without DATABASE_URL, without the      *)
(* SPACES_* variables, or without both, on a table and a store that hold   *)
(* one character created under a full configuration.                       *)
(***************************************************************************)
FirstRow ==
    NewRow(1, [NoLoc EXCEPT !.name = <<>>, !.traits = ElfWizard, !.race = Elf,
                            !.clazz = Wizard,
                            !.image_url = Url("chargen", 1),
                            !.thumb_url = Url("chargen-thumbs", 1)])

ConfigInit ==
    /\ PASSPHRASE_SHA256 = <<>>
    /\ CHARGEN_TOKEN = NONE
    /\ DATABASE_URL \in {NONE, <<>>, DbUrl}
    /\ SPACES \in {EnvNone, EnvNoSecret, EnvSet}
    /\ Falsy(DATABASE_URL) \/ _spaces_cfg(SPACES) = EnvNone
    /\ clock = 0
    /\ cookie = NONE
    /\ origin = [kind |-> "none", ts |-> 0, base |-> NONE]
    /\ verdict = "none"
    /\ GateIdle
    /\ rows = (1 :> FirstRow)
    /\ store = {Url("chargen", 1), Url("chargen-thumbs", 1)}
    /\ nextKey = 2
    /\ nextId = 2
    /\ pc = [h \in Handlers |-> "idle"]
    /\ op = [h \in Handlers |-> NoOp]
    /\ loc = [h \in Handlers |-> NoLoc]
    /\ opsStarted = 0
    /\ CallIdle

\* the steps that can be reached under such a configuration: the row update
\* of a regenerate cannot (its read or its upload has ended it)
ConfigNext ==
    \/ \E h \in Handlers, body \in CreateBodies : StartCreate(h, body)
    \/ \E h \in Handlers, cid \in Cids, body \in RegenBodies :
          StartRegenerate(h, cid, body)
    \/ \E h \in Handlers, cid \in Cids : StartDelete(h, cid)
    \/ \E h \in Handlers, cid \in Cids, body \in UpdateBodies :
          StartUpdate(h, cid, body)
    \/ \E h \in Handlers, dbOk \in BOOLEAN : RegenRead(h, dbOk)
    \/ \E h \in Handlers, outcome \in GenOutcomes : Generate(h, outcome)
    \/ \E h \in Handlers, ok \in BOOLEAN : Upload(h, ok)
    \/ \E h \in Handlers, ok \in BOOLEAN : Thumb(h, ok)
    \/ \E h \in Handlers, dbOk \in BOOLEAN : Insert(h, dbOk)
    \/ \E h \in Handlers, ok \in BOOLEAN : Cleanup(h, ok)
    \/ \E h \in Handlers, dbOk \in BOOLEAN : DelSelect(h, dbOk)
    \/ \E h \in Handlers, dbOk \in BOOLEAN : DelRow(h, dbOk)
    \/ \E h \in Handlers, dbOk \in BOOLEAN : UpdRow(h, dbOk)
    \/ \E h \in Handlers, cid \in Cids : StartQuote(h, cid)
    \/ \E h \in Handlers, dbOk \in BOOLEAN : QuoteSelect(h, dbOk)
    \/ \E h \in Handlers, outcome \in TextOutcomes : QuoteText(h, outcome)

SpecConfig == ConfigInit /\ [][ConfigNext]_vars

\* the operation of h has ended before it asked for the configuration that
\* is missing: a blank field (400), or a failed generation or upload
EndedEarlier(h) ==
    \/ loc[h].status = 400
    \/ loc[h].failed \in {"generation", "upload"}

\* C32: without DATABASE_URL no operation succeeds or changes a row, every
\* object of an existing row stays in the store, and an operation that was
\* not ended earlier by a blank field or a failed generation or upload ends
\* with 503 "not configured"; without the object-store variables no create
\* or regenerate succeeds, commits or changes a row, and one that was not
\* ended earlier (by these or by its row read) ends with 503.
C32_NotConfigured ==
    /\ [](Falsy(DATABASE_URL) =>
            /\ rows = (1 :> FirstRow)
            /\ \A id \in DOMAIN rows :
                  rows[id].image_url \in store /\ rows[id].thumb_url \in store
            /\ \A h \in Handlers :
                  /\ pc[h] \notin {"update", "cleanup", "del_row", "quote_text"}
                  /\ ~loc[h].committed
                  /\ loc[h].deleted = <<>>
                  /\ pc[h] = "done" =>
                        \/ EndedEarlier(h)
                        \/ loc[h].status = 503 /\ loc[h].failed = "not configured")
    /\ [](_spaces_cfg(SPACES) = EnvNone =>
            \A h \in Handlers :
                op[h].kind \in {"create", "regenerate"} =>
                    /\ pc[h] \notin {"thumb", "insert", "update", "cleanup"}
                    /\ ~loc[h].committed
                    /\ loc[h].image_url = NoUrl
                    /\ pc[h] = "done" =>
                          \/ EndedEarlier(h)
                          \/ loc[h].status = 503 /\ loc[h].failed = "not configured"
                          \/ op[h].kind = "regenerate" /\ loc[h].gens = 0
                             /\ loc[h].status \in {404, 500})
    /\ [][\A h \in Handlers :
            (op'[h].kind \in {"create", "regenerate"} /\ pc'[h] # pc[h]) =>
                rows' = rows]_vars

\* without DATABASE_URL a create has generated and uploaded its image, a
\* delete of the existing character was refused, both with 503, and the
\* character's row and objects are as they were
C32_Witness ==
    \E h, g \in Handlers :
        /\ DATABASE_URL = NONE
        /\ SPACES = EnvSet
        /\ op[h].kind = "create"
        /\ loc[h].status = 503
        /\ loc[h].gens = 1
        /\ Cardinality(store) = 4
        /\ op[g].kind = "delete"
        /\ op[g].cid = 1
        /\ loc[g].status = 503
        /\ rows = (1 :> FirstRow)

\* C32 (as claimed): without DATABASE_URL every create, regenerate, delete,
\* metadata update with a name and quote ends with 503.
C32_Always503 ==
    Falsy(DATABASE_URL) =>
        \A h \in Handlers :
            (pc[h] = "done" /\ loc[h].status # 400) => loc[h].status = 503

\* C3: every existing row's image_url denotes an object that is present in
\* the object store.
C3_LiveReference ==
    \A id \in DOMAIN rows : rows[id].image_url \in store

\* a regenerate has swapped the image and removed the old object
C3_Witness ==
    \E h \in Handlers :
        /\ op[h].kind = "regenerate"
        /\ pc[h] = "done"
        /\ loc[h].status = 200
        /\ loc[h].deleted # <<>>
        /\ loc[h].deleted[1] \notin store
        /\ op[h].cid \in DOMAIN rows
        /\ rows[op[h].cid].image_url = loc[h].image_url

\* C4: a regenerate issues the delete of the old image only in a step taken
\* after its row update has committed, so a regenerate whose update did not
\* commit never issues it.
C4_DeleteAfterCommit ==
    [][\A h \in Handlers :
          (op[h].kind = "regenerate" /\ Len(loc'[h].deleted) > Len(loc[h].deleted))
              => /\ loc[h].committed
                 /\ loc'[h].deleted = <<loc[h].old_image_url>>]_vars

C4_Witness ==
    \E h \in Handlers :
        /\ op[h].kind = "regenerate"
        /\ pc[h] = "done"
        /\ loc[h].committed
        /\ Len(loc[h].deleted) = 1

\* C9: every stored row has a non-empty traits string.
C9_TraitsNonEmpty ==
    \A id \in DOMAIN rows : rows[id].traits # NONE /\ rows[id].traits # <<>>

\* a regenerate that was sent empty traits has written the row
C9_Witness ==
    \E h \in Handlers :
        /\ op[h].kind = "regenerate"
        /\ pc[h] = "cleanup"
        /\ loc[h].committed
        /\ loc[h].body.traits = <<>>
        /\ op[h].cid \in DOMAIN rows
        /\ rows[op[h].cid].traits = loc[h].traits

\* C10: a regenerate sent empty traits rebuilds the trait string from the
\* stored facets plus extra and uses the rebuilt string for the prompt and
\* for the traits it writes.
C10_RebuildOnClear ==
    \A h \in Handlers :
        (/\ op[h].kind = "regenerate"
         /\ pc[h] \in {"generate", "upload", "thumb", "update", "cleanup"}
         /\ BodyField(loc[h].body.traits) = NONE) =>
            LET rebuilt == _compose_traits(loc[h].race, loc[h].clazz, loc[h].mood,
                                           loc[h].bg, loc[h].gender, loc[h].style,
                                           loc[h].extra)
            IN  /\ loc[h].traits = EnsureStyle(loc[h].style, rebuilt)
                /\ loc[h].prompt = _build_prompt(loc[h].traits)

\* C11: in create and in regenerate, once the generation call or the upload
\* of the full image has failed, the operation has ended with an error
\* status, has written no row and has issued no object-store delete; the
\* failing step itself changes neither the table nor the object store, and
\* a create whose generation fails has uploaded nothing.
C11_AbortBeforeMutation ==
    /\ [](\A h \in Handlers :
            (op[h].kind \in {"create", "regenerate"} /\ loc[h].failed # "none") =>
                /\ pc[h] = "done"
                /\ loc[h].status >= 400
                /\ ~loc[h].committed
                /\ loc[h].deleted = <<>>)
    /\ [][\A h \in Handlers :
            (/\ op[h].kind \in {"create", "regenerate"}
             /\ loc[h].failed = "none"
             /\ loc'[h].failed # "none") =>
                /\ rows' = rows
                /\ store' = store
                /\ (loc'[h].failed = "generation" =>
                       loc[h].image_url = NoUrl /\ loc[h].thumb_url = NoUrl)]_vars

\* a create whose generation failed while another create went through
C11_Witness ==
    \E h \in Handlers :
        /\ op[h].kind = "create"
        /\ pc[h] = "done"
        /\ loc[h].failed = "generation"
        /\ loc[h].status = 502
        /\ loc[h].gens = 1
        /\ Cardinality(DOMAIN rows) = 1

\* the image_url a handler read from the row at its start: old_image_url
\* while it runs, the target of its cleanup once it has returned
Captured(h) ==
    IF pc[h] # "done" THEN loc[h].old_image_url
    ELSE IF loc[h].deleted = <<>> THEN NoUrl
    ELSE loc[h].deleted[1]

\* two regenerates of one id that both read the row before either of them
\* committed its update, and both committed
SameSnapshot(h, g) ==
    /\ h # g
    /\ op[h].kind = "regenerate" /\ op[g].kind = "regenerate"
    /\ op[h].cid = op[g].cid
    /\ loc[h].committed /\ loc[g].committed
    /\ Captured(h) # NoUrl
    /\ Captured(h) = Captured(g)

RowComposition(row) ==
    _compose_traits(row.race, row.class, row.mood, row.background, row.gender,
                    row.style, row.extra)

C14_DeleteUnknown ==
    [][\A h \in Handlers :
          (/\ op[h].kind = "delete"
           /\ pc[h] = "del_select"
           /\ pc'[h] # "del_select"
           /\ op[h].cid \notin DOMAIN rows) =>
              /\ pc'[h] = "done"
              /\ \/ loc'[h].status = 404
                 \/ loc'[h].status = 500 /\ loc'[h].failed = "datastore"
              /\ loc'[h].deleted = <<>>
              /\ ~loc'[h].committed
              /\ rows' = rows
              /\ store' = store]_vars

\* 404 for an id without a row while another row and its image exist
C14_Witness ==
    \E h \in Handlers :
        /\ op[h].kind = "delete"
        /\ pc[h] = "done"
        /\ loc[h].status = 404
        /\ op[h].cid \notin DOMAIN rows
        /\ rows # <<>>
        /\ \A id \in DOMAIN rows : rows[id].image_url \in store

\* C15: a delete of an existing character captures the image_url of the row
\* it selected, removes the row and commits, and only then issues the
\* object-store delete, for the captured image_url; it returns ok whether or
\* not that delete succeeded, and the row stays deleted.
C15_DeleteRowFirst ==
    /\ [](\A h \in Handlers :
            (op[h].kind = "delete" /\ loc[h].committed) =>
                /\ op[h].cid \notin DOMAIN rows
                /\ pc[h] \in {"cleanup", "done"}
                /\ (pc[h] = "done" =>
                       loc[h].status = 200 /\ Len(loc[h].deleted) = 1))
    /\ [][\A h \in Handlers :
            /\ (op[h].kind = "delete" /\ pc[h] = "del_select"
                    /\ pc'[h] = "del_row") =>
                  loc'[h].old_image_url = rows[op[h].cid].image_url
            /\ (op[h].kind = "delete"
                    /\ Len(loc'[h].deleted) > Len(loc[h].deleted)) =>
                  /\ loc[h].committed
                  /\ op[h].cid \notin DOMAIN rows
                  /\ loc'[h].deleted = <<loc[h].old_image_url>>
                  /\ store' \in {store, store \ {loc[h].old_image_url}}
                  /\ loc'[h].status = 200]_vars

\* the row is gone, the delete of its image failed and the call returned ok
C15_Witness ==
    \E h \in Handlers :
        /\ op[h].kind = "delete"
        /\ pc[h] = "done"
        /\ loc[h].status = 200
        /\ loc[h].committed
        /\ Len(loc[h].deleted) = 1
        /\ loc[h].deleted[1] \in store
        /\ op[h].cid \notin DOMAIN rows

\* C22: a create whose generation and upload succeeded either fails at the
\* datastore or returns 200 with the generated image bytes as its body and
\* inserts exactly one row: under an id no row had, with image_url the URL
\* of the object it uploaded, traits the submitted traits (trimmed) and
\* name "Unnamed" when no name was submitted; no other row changes.
C22_CreateInsertsOne ==
    [][\A h \in Handlers :
          (op[h].kind = "create" /\ pc[h] = "insert" /\ pc'[h] = "done") =>
             \/ /\ loc'[h].status = 500
                /\ loc'[h].failed = "datastore"
                /\ rows' = rows
             \/ /\ loc'[h].status = 200
                /\ loc'[h].content = Png
                /\ loc[h].gens = 1
                /\ \E id \in DOMAIN rows' :
                      /\ id \notin DOMAIN rows
                      /\ DOMAIN rows' = DOMAIN rows \cup {id}
                      /\ rows'[id].image_url = loc[h].image_url
                      /\ rows'[id].image_url \in store
                      /\ rows'[id].traits = Strip(loc[h].body.traits)
                      /\ rows'[id].traits # <<>>
                      /\ rows'[id].name =
                            (IF BodyField(loc[h].body.name) = NONE THEN Unnamed
                             ELSE Strip(loc[h].body.name))
                /\ \A id \in DOMAIN rows : rows'[id] = rows[id]]_vars

\* the row of a create that sent only traits "Elf, Wizard" and facets
C22_Witness ==
    \E h \in Handlers :
        /\ op[h].kind = "create"
        /\ pc[h] = "done"
        /\ loc[h].status = 200
        /\ loc[h].content = Png
        /\ op[h].cid \in DOMAIN rows
        /\ rows[op[h].cid].name = Unnamed
        /\ rows[op[h].cid].traits = ElfWizard
        /\ rows[op[h].cid].image_url = loc[h].image_url

\* Python's "not (v or '').strip()": v is missing, empty or only whitespace
Blank(v) == v = NONE \/ \A i \in 1..Len(v) : v[i] \in Whitespace

\* C23: a create whose traits are missing, empty or only whitespace is
\* answered 400 at once: it is never found at the generation call, the
\* upload or the insert, it has called the provider zero times and written
\* nothing, whatever facets it carries; and only such a create gets 400.
C23_BlankTraitsRejected ==
    /\ [](\A h \in Handlers :
            op[h].kind = "create" =>
                /\ (pc[h] # "done" => ~Blank(loc[h].body.traits))
                /\ (loc[h].status = 400 =>
                       /\ Blank(loc[h].body.traits)
                       /\ pc[h] = "done"
                       /\ loc[h].gens = 0
                       /\ ~loc[h].committed
                       /\ loc[h].image_url = NoUrl
                       /\ loc[h].deleted = <<>>))
    /\ [][\A h \in Handlers :
            (op'[h].kind = "create" /\ loc'[h].status = 400
                /\ opsStarted' > opsStarted) =>
               rows' = rows /\ store' = store]_vars

\* refused although it carries race, class and style
C23_Witness ==
    \E h \in Handlers :
        /\ op[h].kind = "create"
        /\ loc[h].status = 400
        /\ loc[h].body.traits = NONE
        /\ loc[h].body.race = Elf
        /\ loc[h].body.style = Ink
        /\ rows = <<>>
        /\ store = {}

\* C24: the full image is uploaded before the thumbnail; once it is
\* uploaded the publish step always hands on to the insert or update with
\* that image URL, with a thumbnail URL of an uploaded object or none at
\* all; and the create or regenerate that commits stores exactly these two,
\* a NULL thumb_url when the thumbnail failed.
C24_ThumbnailAdvisory ==
    [][\A h \in Handlers :
          /\ (pc[h] = "upload" /\ pc'[h] # "upload") =>
                /\ loc[h].thumb_url = NoUrl
                /\ \/ pc'[h] = "done" /\ loc'[h].failed = "upload"
                   \/ /\ pc'[h] = "thumb"
                      /\ loc'[h].image_url \in store'
                      /\ loc'[h].image_url \notin store
          /\ (pc[h] = "thumb" /\ pc'[h] # "thumb") =>
                /\ pc'[h] \in {"insert", "update"}
                /\ loc'[h].image_url = loc[h].image_url
                /\ loc'[h].failed = "none"
                /\ \/ loc'[h].thumb_url = NoUrl /\ store' = store
                   \/ /\ loc'[h].thumb_url \in store'
                      /\ loc'[h].thumb_url.prefix = "chargen-thumbs"
          /\ (/\ op[h].kind \in {"create", "regenerate"}
              /\ pc[h] \in {"insert", "update"}
              /\ loc'[h].committed) =>
                /\ rows'[op'[h].cid].image_url = loc[h].image_url
                /\ rows'[op'[h].cid].thumb_url = loc[h].thumb_url]_vars

\* a create has returned 200 and stored a row without thumbnail
C24_Witness ==
    \E h \in Handlers :
        /\ op[h].kind = "create"
        /\ pc[h] = "done"
        /\ loc[h].status = 200
        /\ loc[h].thumb_url = NoUrl
        /\ op[h].cid \in DOMAIN rows
        /\ rows[op[h].cid].thumb_url = NoUrl
        /\ rows[op[h].cid].image_url \in store
        /\ Cardinality(store) = 1

\* C25: a metadata update whose name is missing, empty or only whitespace
\* gets 400 in the very step that receives it, before any datastore access
\* and with every row and object left as it was, and no other update gets
\* 400; an update with a valid name on an id that has no row ends with 404
\* (500 if the datastore itself could not be reached) and changes nothing.
C25_UpdateRejected ==
    /\ [](\A h \in Handlers :
            op[h].kind = "update" =>
                /\ (pc[h] # "done" => ~Blank(loc[h].body.name))
                /\ (loc[h].status = 400 =>
                       /\ Blank(loc[h].body.name)
                       /\ pc[h] = "done"
                       /\ ~loc[h].committed))
    /\ [][\A h \in Handlers :
            /\ (/\ op'[h].kind = "update"
                /\ loc'[h].status = 400
                /\ (pc[h] # "done" \/ opsStarted' > opsStarted)) =>
                   /\ opsStarted' > opsStarted
                   /\ rows' = rows
                   /\ store' = store
            /\ (/\ op[h].kind = "update"
                /\ pc[h] = "upd_row"
                /\ pc'[h] # "upd_row"
                /\ op[h].cid \notin DOMAIN rows) =>
                   /\ pc'[h] = "done"
                   /\ \/ loc'[h].status = 404
                      \/ loc'[h].status = 500 /\ loc'[h].failed = "datastore"
                   /\ ~loc'[h].committed
                   /\ rows' = rows
                   /\ store' = store]_vars

\* one update was rejected for its whitespace name and another one, with a
\* valid name, found no row under its id while a row exists under another
C25_Witness ==
    \E h, g \in Handlers :
        /\ op[h].kind = "update"
        /\ loc[h].status = 400
        /\ loc[h].body.name = <<" ">>
        /\ op[g].kind = "update"
        /\ loc[g].status = 404
        /\ op[g].cid \notin DOMAIN rows
        /\ rows # <<>>

\* the columns a metadata update must leave alone
Frame(row) ==
    [id |-> row.id, created_at |-> row.created_at, race |-> row.race,
     class |-> row.class, mood |-> row.mood, background |-> row.background,
     gender |-> row.gender, style |-> row.style, image_url |-> row.image_url,
     thumb_url |-> row.thumb_url, quote |-> row.quote]

\* C26: every step of a metadata update leaves the object store, the set of
\* rows, every other row, and the id, created_at, facets, style, image_url,
\* thumb_url and quote of the addressed row unchanged; a metadata update
\* makes no generation call and no object-store call.
C26_UpdateFrame ==
    /\ [](\A h \in Handlers :
            op[h].kind = "update" =>
                /\ loc[h].gens = 0
                /\ loc[h].deleted = <<>>
                /\ loc[h].image_url = NoUrl)
    /\ [][\A h \in Handlers :
            (/\ op'[h].kind = "update"
             /\ \/ pc[h] = "upd_row" /\ pc'[h] # "upd_row"
                \/ pc'[h] = "upd_row" /\ opsStarted' > opsStarted) =>
                /\ store' = store
                /\ DOMAIN rows' = DOMAIN rows
                /\ \A id \in DOMAIN rows :
                      /\ Frame(rows'[id]) = Frame(rows[id])
                      /\ (id # op'[h].cid => rows'[id] = rows[id])]_vars

\* an update has renamed the unnamed character and replaced its traits; its
\* facets and its image are the ones it was created with
C26_Witness ==
    \E h \in Handlers :
        /\ op[h].kind = "update"
        /\ pc[h] = "done"
        /\ loc[h].status = 200
        /\ op[h].cid \in DOMAIN rows
        /\ rows[op[h].cid].name = Bo
        /\ rows[op[h].cid].traits = Tall
        /\ rows[op[h].cid].race = Elf
        /\ rows[op[h].cid].class = Wizard
        /\ rows[op[h].cid].style = NONE
        /\ rows[op[h].cid].image_url \in store

\* C27 (as claimed): an update with a non-empty name and empty extra and
\* traits on an existing row ends with 200, unless the datastore itself
\* could not be reached.
C27_EmptyTraitsSaved ==
    [][\A h \in Handlers :
          (/\ op[h].kind = "update"
           /\ pc[h] = "upd_row"
           /\ pc'[h] # "upd_row"
           /\ op[h].cid \in DOMAIN rows
           /\ loc[h].body.extra = <<>>
           /\ loc[h].body.traits = <<>>) =>
              \/ loc'[h].status = 200
              \/ loc'[h].failed = "datastore"]_vars

\* C30: no step of a quote operation changes a row or the object store,
\* however it ends, and a quote operation has committed nothing, issued no
\* object-store call and no image generation; on an id that has no row it
\* ends at its select with 404 (500 if the datastore itself could not be
\* reached), without a call of the text provider.
C30_QuoteReadOnly ==
    /\ [](\A h \in Handlers :
            op[h].kind = "quote" =>
                /\ ~loc[h].committed
                /\ loc[h].deleted = <<>>
                /\ loc[h].gens = 0
                /\ loc[h].image_url = NoUrl
                /\ (loc[h].status = 404 => loc[h].texts = 0))
    /\ [][\A h \in Handlers :
            /\ (op'[h].kind = "quote" /\ pc'[h] # pc[h]) =>
                   /\ rows' = rows
                   /\ store' = store
            /\ (/\ op[h].kind = "quote"
                /\ pc[h] = "quote_select"
                /\ pc'[h] # "quote_select"
                /\ op[h].cid \notin DOMAIN rows) =>
                   /\ pc'[h] = "done"
                   /\ \/ loc'[h].status = 404
                      \/ loc'[h].status = 500 /\ loc'[h].failed = "datastore"
                   /\ loc'[h].texts = 0]_vars

\* one quote was returned for the existing character after one call of the
\* text provider, another request named an id without a row and got 404
C30_Witness ==
    \E h, g \in Handlers :
        /\ op[h].kind = "quote"
        /\ loc[h].status = 200
        /\ loc[h].texts = 1
        /\ loc[h].content = QuoteJson
        /\ op[h].cid \in DOMAIN rows
        /\ rows[op[h].cid].quote = NONE
        /\ rows[op[h].cid].image_url \in store
        /\ op[g].kind = "quote"
        /\ loc[g].status = 404
        /\ op[g].cid \notin DOMAIN rows

\* C31 (as claimed): an operation that ended because the image provider or
\* the text provider was unreachable or answered with an error status has
\* status 502.
C31_UpstreamFailure502 ==
    \A h \in Handlers :
        (pc[h] = "done" /\ loc[h].failed \in {"generation", "text"}) =>
            loc[h].status = 502

\* C33: an operation sends at most one request to a generative provider:
\* create and regenerate exactly one image request when they succeed and
\* no text request, quote exactly one text request when it succeeds and no
\* image request, metadata update and delete none; the step after a
\* provider failure is the end of the operation.
C33_OneGenerationCall ==
    /\ [](\A h \in Handlers :
            /\ loc[h].gens + loc[h].texts <= 1
            /\ op[h].kind \in {"create", "regenerate"} =>
                  /\ loc[h].texts = 0
                  /\ (loc[h].status = 200 => loc[h].gens = 1)
            /\ op[h].kind = "quote" =>
                  /\ loc[h].gens = 0
                  /\ (loc[h].status = 200 => loc[h].texts = 1)
            /\ op[h].kind \in {"update", "delete"} =>
                  loc[h].gens = 0 /\ loc[h].texts = 0)
    /\ [][\A h \in Handlers :
            (loc'[h].failed \in {"generation", "text"} /\ loc'[h] # loc[h]) =>
                /\ pc[h] \in {"generate", "quote_text"}
                /\ pc'[h] = "done"
                /\ loc'[h].gens + loc'[h].texts = 1]_vars

\* a regenerate has succeeded after its one image request while a quote has
\* failed at its one text request
C33_Witness ==
    \E h, g \in Handlers :
        /\ op[h].kind = "regenerate"
        /\ loc[h].status = 200
        /\ loc[h].gens = 1
        /\ op[g].kind = "quote"
        /\ pc[g] = "done"
        /\ loc[g].failed = "text"
        /\ loc[g].texts = 1

\* C37: a regenerate that reaches its row update after the row was deleted
\* ends there with 404 (500 if the datastore itself could not be reached),
\* creates no row, issues no object-store delete and leaves the store as it
\* is; an id that names no row any more is never the id of a row again.
C37_RegenerateAfterDelete ==
    [][/\ \A h \in Handlers :
            (/\ op[h].kind = "regenerate"
             /\ pc[h] = "update"
             /\ pc'[h] # "update"
             /\ op[h].cid \notin DOMAIN rows) =>
                /\ pc'[h] = "done"
                /\ loc'[h].status \in {404, 500}
                /\ ~loc'[h].committed
                /\ loc'[h].deleted = <<>>
                /\ rows' = rows
                /\ store' = store
       /\ \A id \in 1..(nextId - 1) : id \notin DOMAIN rows => id \notin DOMAIN rows'
       /\ DOMAIN rows' \subseteq 1..(nextId' - 1)]_vars

\* a delete has committed and finished while the regenerate that had read
\* the row was under way, and the regenerate has ended with 404
C37_Witness ==
    \E h, g \in Handlers :
        /\ op[h].kind = "regenerate"
        /\ pc[h] = "done"
        /\ loc[h].status = 404
        /\ loc[h].gens = 1
        /\ op[g].kind = "delete"
        /\ op[g].cid = op[h].cid
        /\ loc[g].status = 200
        /\ op[h].cid \notin DOMAIN rows
        /\ op[h].cid < nextId

\* C38 (as claimed, for a create followed by a delete): when the only two
\* operations of a run were a create and then the delete of its row, one
\* after the other, both successful and the cleanup delete carried out, no
\* object is left in the store.
C38_NoOrphans ==
    (/\ opsStarted = 2
     /\ pc["h2"] = "idle"
     /\ pc["h1"] = "done"
     /\ op["h1"].kind = "delete"
     /\ loc["h1"].status = 200
     /\ Len(loc["h1"].deleted) = 1
     /\ loc["h1"].deleted[1] \notin store
     /\ rows = <<>>) =>
        store = {}

\* C40: every step of a regenerate leaves the set of rows, every other row,
\* and the id, created_at, name, race, class, mood, background, gender and
\* quote of the addressed row unchanged; no step of any operation changes
\* the id or created_at of a row.
C40_RegenerateFrame ==
    [][/\ \A h \in Handlers :
            (op'[h].kind = "regenerate" /\ pc'[h] # pc[h]) =>
                /\ DOMAIN rows' = DOMAIN rows
                /\ \A id \in DOMAIN rows :
                      /\ id # op'[h].cid => rows'[id] = rows[id]
                      /\ rows'[id].name = rows[id].name
                      /\ rows'[id].race = rows[id].race
                      /\ rows'[id].class = rows[id].class
                      /\ rows'[id].mood = rows[id].mood
                      /\ rows'[id].background = rows[id].background
                      /\ rows'[id].gender = rows[id].gender
                      /\ rows'[id].quote = rows[id].quote
       /\ \A id \in DOMAIN rows \cap DOMAIN rows' :
              /\ rows'[id].id = rows[id].id
              /\ rows'[id].created_at = rows[id].created_at
       /\ \A id \in DOMAIN rows' : rows'[id].id = id]_vars

\* a regenerate has replaced traits, style and image of the named character
\* while the other character is as it was created
C40_Witness ==
    \E h \in Handlers :
        /\ op[h].kind = "regenerate"
        /\ loc[h].status = 200
        /\ op[h].cid = 1
        /\ DOMAIN rows = {1, 2}
        /\ rows[1].name = Bo
        /\ rows[1].race = Elf
        /\ rows[1].traits = Tall \o CommaSpace \o StylePrefix \o Ink
        /\ rows[1].image_url = loc[h].image_url
        /\ rows[1].image_url.key > 1
        /\ rows[1].created_at = 1
        /\ rows[2].traits = ElfWizard

\* C39 (as claimed): when a regenerate without extra and traits overrides
\* commits its row update on a row on which a metadata update has
\* committed, the row keeps the extra and the traits it has at that moment
\* (the traits possibly extended by a Style token).
C39_NoLostUpdate ==
    [][\A h \in Handlers :
          (/\ op[h].kind = "regenerate"
           /\ pc[h] = "update"
           /\ loc'[h].committed
           /\ BodyField(loc[h].body.extra) = NONE
           /\ BodyField(loc[h].body.traits) = NONE
           /\ \E g \in Handlers :
                 /\ op[g].kind = "update"
                 /\ op[g].cid = op[h].cid
                 /\ loc[g].committed) =>
              /\ rows'[op[h].cid].extra = rows[op[h].cid].extra
              /\ rows'[op[h].cid].traits \in
                    { rows[op[h].cid].traits,
                      EnsureStyle(rows'[op[h].cid].style, rows[op[h].cid].traits) }]_vars

\* C34: while a create or a regenerate is at its generation call, its
\* upload or its thumbnail, it holds no open datastore connection: a create
\* has opened none yet, a regenerate has opened and closed one; a create or
\* regenerate opens a connection only at its row read, before the
\* generation call, and at its insert or update, after the upload.
C34_NoConnectionInFlight ==
    /\ [](\A h \in Handlers :
            pc[h] \in {"generate", "upload", "thumb"} =>
                /\ ~loc[h].conn_open
                /\ op[h].kind = "create" => loc[h].conns = 0
                /\ op[h].kind = "regenerate" => loc[h].conns = 1)
    /\ [][\A h \in Handlers :
            loc'[h].conns > loc[h].conns =>
                /\ pc[h] \in {"regen_read", "insert", "update"}
                /\ loc'[h].conns = loc[h].conns + 1
                /\ pc'[h] \in {"generate", "cleanup", "done"}
                /\ store' = store]_vars

\* a regenerate is uploading after its one read; its second connection has
\* not been opened
C34_Witness ==
    \E h \in Handlers :
        /\ op[h].kind = "regenerate"
        /\ pc[h] = "upload"
        /\ loc[h].gens = 1
        /\ loc[h].conns = 1
        /\ ~loc[h].conn_open
        /\ op[h].cid \in DOMAIN rows

====
